---- MODULE Spec2Model ----
(***************************************************************************)
(* The user-funnel simulation of services/mock-data-engine/orchestrator.py *)
(* (_run_simulation and the record creators it calls) and the formatters   *)
(* of its result, modelled as a state machine whose steps are the          *)
(* iterations of the loops of _run_simulation and the calls of a           *)
(* formatter.  Two functions are also called on their own, each under a   *)
(* specification of its own: _build_traffic_sources with _pick_traffic     *)
(* (SpecTraffic), and QueryBuilder.build_query of services/platform-api    *)
(* (SpecQuery).  SpecJourney follows the loops of _run_simulation to their *)
(* end, without the records, and SpecBoost applies the computation of the  *)
(* advance probability to every configured probability.                    *)
(*                                                                         *)
(* Time is in whole seconds; probabilities are in hundredths (0.55 is 55); *)
(* prices are in cents.                                                    *)
(*                                                                         *)
(* sim is one execution of _run_simulation.  twin is a second execution    *)
(* with the same arguments and the same SEED: the seeded generators        *)
(* (random.Random(SEED), the seeded Faker) give both the same outcomes,    *)
(* so every step draws them once and applies them to both.  uuid.uuid4()   *)
(* and date.today() are not seeded: each execution has its own entropy     *)
(* and its own today.  Under Spec twin is sim itself, looked at twice;     *)
(* under SpecTwin it is any execution with the same arguments.             *)
(***************************************************************************)
EXTENDS Integers, Sequences, FiniteSets, TLC

\* ---------------------------------------------------------------- bounds
\* users walked of the pool (the pool itself never has fewer than 200)
MaxUsers == 2
\* sessions of one execution
MaxSessions == 2
\* calls of the random generators and of the clock, in the simulation and
\* in the formatters, whose outcome is not the first of the outcomes
\* explored for the call (the draws that decide whether a step fires or a
\* user returns are not counted)
MaxOddDraws == 1
\* calls of a formatter on one result
MaxFormatCalls == 2

MaxPlatforms == 2

MaxFilters == 1

\* ------------------------------------------------------ program constants
FUNNEL_EVENTS ==
    <<"session_start", "view_item", "add_to_cart",
      "begin_checkout", "add_payment_info", "purchase">>

INTRA_SESSION_DELAY_SECONDS == <<60, 1800>>

INTER_SESSION_DELAY_SECONDS == <<1860, 604800>>

SecondsPerDay == 86400

DailyOrdersTarget == 15

ConversionPerMille == 65

UserFloor == 200

BoostCap == 95

DefaultReturnRate == 6

PaidWeightTotal == 58

_PLATFORM_TRAFFIC ==
    [google_ads    |-> [source |-> "google",    medium |-> "cpc"],
     facebook_ads  |-> [source |-> "facebook",  medium |-> "cpc"],
     instagram_ads |-> [source |-> "instagram", medium |-> "cpc"],
     bing_ads      |-> [source |-> "bing",      medium |-> "cpc"],
     linkedin_ads  |-> [source |-> "linkedin",  medium |-> "cpc"],
     tiktok_ads    |-> [source |-> "tiktok",    medium |-> "cpc"],
     amazon_ads    |-> [source |-> "amazon",    medium |-> "cpc"]]

_ORGANIC_TRAFFIC ==
    <<[source |-> "google",   medium |-> "organic",  weight |-> 40],
      [source |-> "(direct)", medium |-> "(none)",   weight |-> 30],
      [source |-> "email",    medium |-> "email",    weight |-> 15],
      [source |-> "referral", medium |-> "referral", weight |-> 15]>>

_DEVICE_WEIGHTS ==
    <<[device |-> "mobile",  weight |-> 55],
      [device |-> "desktop", weight |-> 35],
      [device |-> "tablet",  weight |-> 10]>>

_GEO_WEIGHTS ==
    <<[country |-> "US", weight |-> 50,
       cities |-> <<"New York", "Los Angeles", "Chicago", "Houston", "Phoenix">>],
      [country |-> "CA", weight |-> 12,
       cities |-> <<"Toronto", "Vancouver", "Montreal">>],
      [country |-> "GB", weight |-> 10,
       cities |-> <<"London", "Manchester", "Birmingham">>],
      [country |-> "DE", weight |-> 8,
       cities |-> <<"Berlin", "Munich", "Hamburg">>],
      [country |-> "AU", weight |-> 7,
       cities |-> <<"Sydney", "Melbourne", "Brisbane">>],
      [country |-> "FR", weight |-> 6,
       cities |-> <<"Paris", "Lyon", "Marseille">>],
      [country |-> "JP", weight |-> 4,
       cities |-> <<"Tokyo", "Osaka", "Yokohama">>],
      [country |-> "BR", weight |-> 3,
       cities |-> <<"Sao Paulo", "Rio de Janeiro">>]>>

_LANDING_PAGES_PAID ==
    <<"/landing/sale", "/landing/new-arrivals", "/landing/free-shipping",
      "/products/featured", "/collections/best-sellers">>

_LANDING_PAGES_ORGANIC ==
    <<"/", "/products", "/collections/all", "/about", "/blog/post">>

\* FunnelConfig(): the defaults of config.py, as get_advance_rates() and
\* get_return_rates() return them.
FunnelConfig ==
    [advance_rates |->
        [session_start_to_view_item         |-> 55,
         view_item_to_add_to_cart           |-> 25,
         add_to_cart_to_begin_checkout      |-> 55,
         begin_checkout_to_add_payment_info |-> 75,
         add_payment_info_to_purchase       |-> 88],
     return_rates |->
        (0 :> 6) @@ (1 :> 15) @@ (2 :> 35) @@ (3 :> 50) @@ (4 :> 60) @@ (5 :> 45),
     returning_customer_boost |-> 140]

\* ------------------------------------------------------------- the inputs
Max(a, b) == IF a >= b THEN a ELSE b

Min(a, b) == IF a <= b THEN a ELSE b

\* int(x / y) of Python for y > 0: truncation towards zero.
TruncDiv(a, b) == IF a >= 0 THEN a \div b ELSE -((-a) \div b)

DaysValues == {-1, 0, 1}

\* a funnel_config whose advance_rates lacks the key of the transition
\* view_item -> add_to_cart and whose return_rates lacks the depth 1
FunnelConfigWithGaps ==
    [advance_rates |->
        [session_start_to_view_item         |-> 55,
         add_to_cart_to_begin_checkout      |-> 55,
         begin_checkout_to_add_payment_info |-> 75,
         add_payment_info_to_purchase       |-> 88],
     return_rates |->
        (0 :> 6) @@ (2 :> 35) @@ (3 :> 50) @@ (4 :> 60) @@ (5 :> 45),
     returning_customer_boost |-> 140]

FunnelConfigs == {FunnelConfig, FunnelConfigWithGaps}

CampaignPools ==
    { <<>>,
      <<[platform |-> "google_ads", campaigns |-> <<"brand", "retargeting">>],
        [platform |-> "facebook_ads", campaigns |-> <<"lookalike">>]>> }

\* the campaign pools _build_traffic_sources is called with on its own: up to
\* MaxPlatforms platforms, one of them without an entry in _PLATFORM_TRAFFIC,
\* each with up to three campaigns
CampaignLists ==
    { <<>>, <<"brand">>, <<"brand", "retargeting">>,
      <<"brand", "retargeting", "prospecting">> }

PlatformNames == {"google_ads", "facebook_ads", "billboard_ads"}

TrafficPools ==
    UNION { { q \in [1 .. n -> [platform : PlatformNames, campaigns : CampaignLists]] :
                \A i, j \in 1 .. n : i # j => q[i].platform # q[j].platform }
            : n \in 0 .. MaxPlatforms }

\* the outcomes of random() looked at when _pick_traffic is called on its own
PickVals == 0 .. 99

ProductCatalogs ==
    { <<>>,
      <<[id |-> 1001, title |-> "Mug", price |-> 1250]>> }

\* date.today(), as a day number.
Todays == {10, 11}

\* What os.urandom gives the uuid4 calls of one execution.
Entropies == {"e1", "e2"}

\* The seed of str hashes in one process (PYTHONHASHSEED is not set).
HashSeeds == {"h1", "h2"}

\* Where an execution runs: its today, its entropy, the hash seed of its
\* process.
Processes == {<<10, "e1", "h1">>, <<11, "e2", "h2">>}

\* The outcomes explored for each call of the seeded generators, the usual
\* one first: random() in hundredths, randint(lo, hi), the index choice and
\* choices take, randint(100_000, 9_999_999) of the order id, and
\* fake.free_email_domain().
RandomVals == <<0, 50, 99>>

RandInt(lo, hi) == <<lo, hi>>

ChoiceIndex(seq) == IF Len(seq) > 1 THEN <<1, Len(seq)>> ELSE <<1>>

OrderIdVals == <<123456, 223456, 323456>>

FreeEmailDomains == <<"gmail.com", "yahoo.com">>

FulfillmentStatuses == <<"fulfilled", "unfulfilled", "partial">>

\* The outcomes explored for the calls no seed determines: random.randint
\* (1000, 9999) and random.choice of the module random, and datetime.now()
\* as a second of the clock.
LineItemIds == RandInt(1000, 9999)

Browsers == <<"Chrome", "Safari", "Firefox", "Edge">>

Nows == <<2000000, 2000001>>

\* the outcomes of a call as a set, and whether an outcome counts as odd
Vals(outcomes) == {outcomes[i] : i \in DOMAIN outcomes}

Odd(v, outcomes) == IF v = outcomes[1] THEN 0 ELSE 1

RECURSIVE SumSeq(_)
SumSeq(s) == IF s = <<>> THEN 0 ELSE Head(s) + SumSeq(Tail(s))

\* ------------------------------------------------------------------ state
VARIABLES
    \* the arguments of _run_simulation
    days, funnel_config, campaign_pool, product_catalog,
    \* the two executions: SimulationResult, the locals of _run_simulation,
    \* the position in it, and the process (today, entropy, uuid4 calls made)
    sim, twin,
    \* odd outcomes drawn so far
    odd_draws,
    \* the formatter applied to the result of sim, and what each of its
    \* calls has returned
    formatter, outputs,
    \* a call of one function on its own: the arguments of build_query, and
    \* what the calls made so far have returned
    request, returned

inputs == <<days, funnel_config, campaign_pool, product_catalog>>

\* the function called on its own
pure == <<request, returned>>

vars == <<inputs, sim, twin, odd_draws, formatter, outputs, pure>>

\* ------------------------------------------------------------- strings
\* uuid.uuid4().hex of the k-th call from here in execution s; distinct
\* calls give distinct values, and no seed determines them.
Uuid4Hex(s, k) == [entropy |-> s.entropy, call |-> s.uuid_calls + k]

\* x[:n] of a string.
Prefix(x, n) == [first |-> n, of |-> x]

\* x[-n:] of a string.
Suffix(x, n) == [last |-> n, of |-> x]

\* ------------------------------------------------------ traffic sources
\* variant: the organic sources always share 1 - paid_weight_total
_build_traffic_sources_fixed_organic(pool) ==
    LET total_campaigns ==
            SumSeq([i \in 1 .. Len(pool) |-> Len(pool[i].campaigns)])
        T == Max(total_campaigns, 1)
        known == SelectSeq(pool, LAMBDA e : e.platform \in DOMAIN _PLATFORM_TRAFFIC)
        paid == [i \in 1 .. Len(known) |->
                    [source    |-> _PLATFORM_TRAFFIC[known[i].platform].source,
                     medium    |-> _PLATFORM_TRAFFIC[known[i].platform].medium,
                     weight    |-> Len(known[i].campaigns) * PaidWeightTotal * 100,
                     is_paid   |-> TRUE,
                     platform  |-> known[i].platform,
                     campaigns |-> known[i].campaigns]]
        organic_weight_total == 10000 * T - PaidWeightTotal * 100 * T
        organic == [i \in 1 .. Len(_ORGANIC_TRAFFIC) |->
                    [source    |-> _ORGANIC_TRAFFIC[i].source,
                     medium    |-> _ORGANIC_TRAFFIC[i].medium,
                     weight    |-> (_ORGANIC_TRAFFIC[i].weight * organic_weight_total) \div 100,
                     is_paid   |-> FALSE,
                     platform  |-> "None",
                     campaigns |-> <<>>]]
    IN  paid \o organic

_build_traffic_sources(pool) ==
    LET total_campaigns ==
            SumSeq([i \in 1 .. Len(pool) |-> Len(pool[i].campaigns)])
        T == Max(total_campaigns, 1)
        known == SelectSeq(pool, LAMBDA e : e.platform \in DOMAIN _PLATFORM_TRAFFIC)
        \* weights are counted in units of 1 / (10000 * T)
        paid == [i \in 1 .. Len(known) |->
                    [source    |-> _PLATFORM_TRAFFIC[known[i].platform].source,
                     medium    |-> _PLATFORM_TRAFFIC[known[i].platform].medium,
                     weight    |-> Len(known[i].campaigns) * PaidWeightTotal * 100,
                     is_paid   |-> TRUE,
                     platform  |-> known[i].platform,
                     campaigns |-> known[i].campaigns]]
        organic_weight_total ==
            10000 * T - SumSeq([i \in 1 .. Len(paid) |-> paid[i].weight])
        organic == [i \in 1 .. Len(_ORGANIC_TRAFFIC) |->
                    [source    |-> _ORGANIC_TRAFFIC[i].source,
                     medium    |-> _ORGANIC_TRAFFIC[i].medium,
                     weight    |-> (_ORGANIC_TRAFFIC[i].weight * organic_weight_total) \div 100,
                     is_paid   |-> FALSE,
                     platform  |-> "None",
                     campaigns |-> <<>>]]
    IN  paid \o organic

\* random.choices(items, weights, k=1)[0] when random() returns u / 100:
\* bisect_right of u * total in the cumulative weights, over [0, n - 1).
pick_weighted(items, u) ==
    LET n == Len(items)
        cum(i) == SumSeq([j \in 1 .. i |-> items[j].weight])
        below == {i \in 1 .. (n - 1) : cum(i) * 100 <= u * cum(n)}
    IN  items[Cardinality(below) + 1]

\* line 467: a campaign is drawn for this source
PaidWithCampaigns(selected) == selected.is_paid /\ selected.campaigns # <<>>

\* the None of a field
None == "None"

\* variant: an organic source leaves utm_campaign unset
_pick_traffic_campaign_unset(sources, u, c) ==
    LET selected == pick_weighted(sources, u)
    IN  [source    |-> selected.source,
         medium    |-> selected.medium,
         is_paid   |-> selected.is_paid,
         platform  |-> selected.platform,
         campaigns |-> selected.campaigns,
         utm_campaign |-> IF PaidWithCampaigns(selected)
                          THEN selected.campaigns[c]
                          ELSE None]

\* variant: the campaign is drawn from the campaigns of the first source
_pick_traffic_first_platform(sources, u, c) ==
    LET selected == pick_weighted(sources, u)
    IN  [source    |-> selected.source,
         medium    |-> selected.medium,
         is_paid   |-> selected.is_paid,
         platform  |-> selected.platform,
         campaigns |-> selected.campaigns,
         utm_campaign |-> IF PaidWithCampaigns(selected)
                          THEN sources[1].campaigns[c]
                          ELSE "(not set)"]

\* _pick_traffic: u is the outcome of random(), c the index rng.choice takes
\* (drawn only when line 467 holds).
_pick_traffic(sources, u, c) ==
    LET selected == pick_weighted(sources, u)
    IN  [source    |-> selected.source,
         medium    |-> selected.medium,
         is_paid   |-> selected.is_paid,
         platform  |-> selected.platform,
         campaigns |-> selected.campaigns,
         utm_campaign |-> IF PaidWithCampaigns(selected)
                          THEN selected.campaigns[c]
                          ELSE "(not set)"]

\* ------------------------------------------------------ record creators
\* the email "", and f"{local}@{domain}"
NoEmail == <<>>

Email(local, domain) == <<local, "@", domain>>

\* _create_user; draw holds the outcomes of its calls: random() for the
\* device and for the country, the two randint of the cookie, the index
\* rng.choice takes among the cities.
_create_user(hex, draw) ==
    LET device == pick_weighted(_DEVICE_WEIGHTS, draw.device)
        geo == pick_weighted(_GEO_WEIGHTS, draw.geo)
    IN  [user_id         |-> [tag |-> "u_", hex |-> Prefix(hex, 12)],
         cookie_id       |-> <<"GA1.1.", draw.cookie[1], ".", draw.cookie[2]>>,
         email           |-> NoEmail,
         device_category |-> device.device,
         geo_country     |-> geo.country,
         geo_city        |-> geo.cities[draw.city],
         is_customer     |-> FALSE,
         order_count     |-> 0]

\* line 525
LandingPages(traffic) ==
    IF traffic.is_paid THEN _LANDING_PAGES_PAID ELSE _LANDING_PAGES_ORGANIC

\* _create_session; page is the index rng.choice takes among the pages.
_create_session(u, session_number, timestamp, traffic, hex, page) ==
    [session_id       |-> [tag |-> "s_", hex |-> Prefix(hex, 16)],
     user_id          |-> u.user_id,
     cookie_id        |-> u.cookie_id,
     session_number   |-> session_number,
     timestamp        |-> timestamp,
     utm_source       |-> traffic.source,
     utm_medium       |-> traffic.medium,
     utm_campaign     |-> traffic.utm_campaign,
     landing_page     |-> LandingPages(traffic)[page],
     device_category  |-> u.device_category,
     geo_country      |-> u.geo_country,
     geo_city         |-> u.geo_city,
     is_paid          |-> traffic.is_paid,
     converted        |-> FALSE,
     max_funnel_depth |-> 0]

\* product = None
NoProduct == [id |-> 0, title |-> "", price |-> 0]

\* variant: the event does not carry the index of its step
_create_event_unindexed(s, u, event_name, timestamp, step_index, product, hex) ==
    [event_id      |-> [tag |-> "e_", hex |-> Prefix(hex, 16)],
     session_id    |-> s.session_id,
     user_id       |-> u.user_id,
     cookie_id     |-> u.cookie_id,
     event_name    |-> event_name,
     timestamp     |-> timestamp,
     event_index   |-> 0,
     product_id    |-> IF product # NoProduct /\ step_index >= 1
                       THEN product.id ELSE 0,
     product_price |-> IF product # NoProduct /\ step_index >= 1
                       THEN product.price ELSE 0,
     product_category |-> None]

_create_event(s, u, event_name, timestamp, step_index, product, hex) ==
    [event_id      |-> [tag |-> "e_", hex |-> Prefix(hex, 16)],
     session_id    |-> s.session_id,
     user_id       |-> u.user_id,
     cookie_id     |-> u.cookie_id,
     event_name    |-> event_name,
     timestamp     |-> timestamp,
     event_index   |-> step_index,
     product_id    |-> IF product # NoProduct /\ step_index >= 1
                       THEN product.id ELSE 0,
     product_price |-> IF product # NoProduct /\ step_index >= 1
                       THEN product.price ELSE 0,
     product_category |-> None]

LineItem(prod, qty) ==
    [product_id |-> prod.id,
     title      |-> prod.title,
     sku        |-> "",
     quantity   |-> qty,
     price      |-> prod.price,
     total      |-> prod.price * qty]

\* line 587
OrderEmail(u, domain) ==
    IF u.email # NoEmail THEN u.email
    ELSE Email(Prefix(u.user_id, 12), domain)

\* _create_order; draw holds the outcomes of its calls: per line item the
\* index rng.choices takes (sel) and the quantity (qty), the domain of
\* fake.free_email_domain(), the order id, the index of the status.
_create_order(s, u, purchase_time, products, draw) ==
    LET line_items == [i \in 1 .. draw.n_items |->
                          LineItem(products[draw.sel[i]], draw.qty[i])]
        subtotal == SumSeq([i \in 1 .. draw.n_items |-> line_items[i].total])
    IN  [order_id           |-> draw.order_id,
         user_id            |-> u.user_id,
         cookie_id          |-> u.cookie_id,
         session_id         |-> s.session_id,
         timestamp          |-> purchase_time,
         total_price        |-> subtotal,
         currency           |-> "USD",
         financial_status   |-> "paid",
         fulfillment_status |-> FulfillmentStatuses[draw.status],
         customer_email     |-> OrderEmail(u, draw.domain),
         customer_id        |-> u.user_id,
         line_items         |-> line_items,
         utm_source         |-> s.utm_source,
         utm_medium         |-> s.utm_medium,
         utm_campaign       |-> s.utm_campaign]

\* --------------------------------------------------- _run_simulation
\* lines 326-341: what _run_simulation computes before its loop
traffic_sources == _build_traffic_sources(campaign_pool)

total_orders_target == DailyOrdersTarget * days

total_users ==
    Max(TruncDiv(total_orders_target * 1000, ConversionPerMille), UserFloor)

end_dt(s) == s.today * SecondsPerDay

start_dt(s) == end_dt(s) - days * SecondsPerDay

\* f"{from_event}_to_{to_event}" of the step with index i
rate_key(i) == FUNNEL_EVENTS[i] \o "_to_" \o FUNNEL_EVENTS[i + 1]

\* variant: a transition without an entry advances at the rate 0.55
base_prob_default_rate(i, u) ==
    LET rates == funnel_config.advance_rates
        p == IF rate_key(i) \in DOMAIN rates THEN rates[rate_key(i)] ELSE 55
    IN  IF u.is_customer
        THEN Min(p * funnel_config.returning_customer_boost, BoostCap * 100)
        ELSE p * 100

\* variant: the boosted probability is not capped
base_prob_uncapped(i, u) ==
    LET rates == funnel_config.advance_rates
        p == IF rate_key(i) \in DOMAIN rates THEN rates[rate_key(i)] ELSE 0
    IN  IF u.is_customer
        THEN p * funnel_config.returning_customer_boost
        ELSE p * 100

\* variant: the boost is applied to every user
base_prob_boost_for_all(i, u) ==
    LET rates == funnel_config.advance_rates
        p == IF rate_key(i) \in DOMAIN rates THEN rates[rate_key(i)] ELSE 0
    IN  Min(p * funnel_config.returning_customer_boost, BoostCap * 100)

\* lines 378-382: advance_rates.get(rate_key, 0.0), boosted and capped for
\* a customer; in ten-thousandths.
base_prob(i, u) ==
    LET rates == funnel_config.advance_rates
        p == IF rate_key(i) \in DOMAIN rates THEN rates[rate_key(i)] ELSE 0
    IN  IF u.is_customer
        THEN Min(p * funnel_config.returning_customer_boost, BoostCap * 100)
        ELSE p * 100

\* line 411: return_rates.get(max_depth, 0.06), in hundredths.
return_prob(depth) ==
    IF depth \in DOMAIN funnel_config.return_rates
    THEN funnel_config.return_rates[depth]
    ELSE DefaultReturnRate

\* no return draw is at hand: none was made for this user yet, or line 354
\* has acted on the last one
NoDraw == <<>>

\* the execution as line 343 is first reached, in a process with this
\* today, this entropy and this hash seed
Started(t, e, h) ==
    [today |-> t, entropy |-> e, hash_seed |-> h, uuid_calls |-> 0,
     users |-> <<>>, sessions |-> <<>>, events |-> <<>>, orders |-> <<>>,
     user_index |-> <<>>, session_index |-> <<>>,
     pc |-> "for_user", n_users |-> 0, user |-> 0, current_time |-> 0,
     session_count |-> 0, has_more_sessions |-> FALSE, session |-> 0,
     event_time |-> 0, max_depth |-> 0, step_idx |-> 0,
     browsed_product |-> NoProduct, reached |-> <<>>,
     return_draw |-> NoDraw]

InitInputs ==
    /\ days \in DaysValues
    /\ funnel_config \in FunnelConfigs
    /\ campaign_pool \in CampaignPools
    /\ product_catalog \in ProductCatalogs
    /\ odd_draws = 0
    /\ formatter = "none"
    /\ outputs = <<>>
    /\ request = <<>>
    /\ returned = <<>>

\* one execution, looked at twice
Init ==
    /\ InitInputs
    /\ \E p \in Processes : sim = Started(p[1], p[2], p[3]) /\ twin = sim

Spend(n) == odd_draws + n <= MaxOddDraws /\ odd_draws' = odd_draws + n

\* the outcomes explored for a call from here
Explored(outcomes) ==
    IF odd_draws < MaxOddDraws THEN Vals(outcomes) ELSE {outcomes[1]}

\* line 343: the pool is not exhausted
MoreUsers(s) == s.n_users < Min(total_users, MaxUsers)

\* variant: line 351 is missing, the count of sessions is not reset
create_user_step_counting_on(s, first_offset, draw) ==
    LET u == _create_user(Uuid4Hex(s, 1), draw)
    IN  [s EXCEPT
            !.users = Append(@, u),
            !.user_index = (u.user_id :> (Len(s.users) + 1)) @@ @,
            !.user = Len(s.users) + 1,
            !.current_time = start_dt(s) + first_offset,
            !.uuid_calls = @ + 1,
            !.n_users = @ + 1,
            !.has_more_sessions = TRUE,
            !.return_draw = NoDraw,
            !.pc = "while_session"]

\* lines 344-352: the next user of the pool and the time of the first visit
create_user_step(s, first_offset, draw) ==
    LET u == _create_user(Uuid4Hex(s, 1), draw)
    IN  [s EXCEPT
            !.users = Append(@, u),
            !.user_index = (u.user_id :> (Len(s.users) + 1)) @@ @,
            !.user = Len(s.users) + 1,
            !.current_time = start_dt(s) + first_offset,
            !.uuid_calls = @ + 1,
            !.n_users = @ + 1,
            !.session_count = 0,
            !.has_more_sessions = TRUE,
            !.return_draw = NoDraw,
            !.pc = "while_session"]

FirstOffsets == RandInt(0, Max(1, days * SecondsPerDay - 1))

CookieRandoms == RandInt(1000000, 9999999)

CookieTimes == RandInt(1600000000, 1700000000)

CreateUser ==
    /\ sim.pc = "for_user" /\ twin.pc = "for_user"
    /\ MoreUsers(sim) /\ MoreUsers(twin)
    /\ \E device \in Explored(RandomVals), geo \in Explored(RandomVals),
          a \in Explored(CookieRandoms), b \in Explored(CookieTimes),
          first_offset \in Explored(FirstOffsets) :
       LET cities == ChoiceIndex(pick_weighted(_GEO_WEIGHTS, geo).cities)
       IN  \E city \in Explored(cities) :
             /\ Spend(Odd(device, RandomVals) + Odd(geo, RandomVals)
                      + Odd(a, CookieRandoms) + Odd(b, CookieTimes)
                      + Odd(city, cities) + Odd(first_offset, FirstOffsets))
             /\ LET step(s) ==
                        create_user_step(s, first_offset,
                            [device |-> device, geo |-> geo, cookie |-> <<a, b>>,
                             city |-> city])
                IN  sim' = step(sim) /\ twin' = step(twin)
    /\ UNCHANGED <<pure, inputs, formatter, outputs>>

\* line 343, exhausted: the pool has been walked
EndUsers ==
    /\ sim.pc = "for_user" /\ twin.pc = "for_user"
    /\ ~MoreUsers(sim) /\ ~MoreUsers(twin)
    /\ LET step(s) ==
               [s EXCEPT !.pc = "summary"]
       IN  sim' = step(sim) /\ twin' = step(twin)
    /\ UNCHANGED <<pure, inputs, odd_draws, formatter, outputs>>

\* variant: line 354 does not look at the window
MoreSessions_ignoring_window(s) == s.has_more_sessions

\* line 354
MoreSessions(s) == s.has_more_sessions /\ s.current_time < end_dt(s)

\* lines 355-371: a new session, its session_start event, the product browsed
start_session_step(s, u, c, page, b) ==
    LET traffic == _pick_traffic(traffic_sources, u, c)
        new == _create_session(s.users[s.user], s.session_count + 1,
                               s.current_time, traffic, Uuid4Hex(s, 1), page)
        e == _create_event(new, s.users[s.user], FUNNEL_EVENTS[1],
                           s.current_time, 0, NoProduct, Uuid4Hex(s, 2))
    IN  [s EXCEPT
            !.session_count = @ + 1,
            !.sessions = Append(@, new),
            !.session_index = (new.session_id :> (Len(s.sessions) + 1)) @@ @,
            !.session = Len(s.sessions) + 1,
            !.event_time = s.current_time,
            !.max_depth = 0,
            !.events = Append(@, e),
            !.browsed_product =
                IF product_catalog # <<>> THEN product_catalog[b] ELSE NoProduct,
            !.uuid_calls = @ + 2,
            !.step_idx = 1,
            !.return_draw = NoDraw,
            !.pc = "for_step"]

StartSession ==
    /\ sim.pc = "while_session" /\ twin.pc = "while_session"
    /\ MoreSessions(sim) /\ MoreSessions(twin)
    /\ Len(sim.sessions) < MaxSessions
    /\ \E u \in Explored(RandomVals) :
       LET selected == pick_weighted(traffic_sources, u)
           campaigns == IF PaidWithCampaigns(selected)
                        THEN ChoiceIndex(selected.campaigns) ELSE <<1>>
           products == IF product_catalog # <<>>
                       THEN ChoiceIndex(product_catalog) ELSE <<1>>
           pages == ChoiceIndex(LandingPages(selected))
       IN  \E c \in Explored(campaigns), page \in Explored(pages),
              b \in Explored(products) :
             /\ Spend(Odd(u, RandomVals) + Odd(c, campaigns)
                      + Odd(page, pages) + Odd(b, products))
             /\ LET step(s) ==
                        start_session_step(s, u, c, page, b)
                IN  sim' = step(sim) /\ twin' = step(twin)
    /\ UNCHANGED <<pure, inputs, formatter, outputs>>

\* line 354, false: this user's sessions are over, back to line 343
EndSessions ==
    /\ sim.pc = "while_session" /\ twin.pc = "while_session"
    /\ ~MoreSessions(sim) /\ ~MoreSessions(twin)
    /\ LET step(s) ==
               [s EXCEPT !.pc = "for_user", !.return_draw = NoDraw]
       IN  sim' = step(sim) /\ twin' = step(twin)
    /\ UNCHANGED <<pure, inputs, odd_draws, formatter, outputs>>

\* line 384: the draw r lets the step step_idx fire
Fires(s, r) == r * 100 < base_prob(s.step_idx, s.users[s.user])

\* variant: line 394 does not test the step
OrderDue_at_any_step(s) == product_catalog # <<>>

\* line 394
OrderDue(s) ==
    FUNNEL_EVENTS[s.step_idx + 1] = "purchase" /\ product_catalog # <<>>

\* variant: the purchase step marks the session and the user, whether or
\* not an order follows
advance_step_converting(s, d) ==
    [s EXCEPT
        !.event_time = @ + d,
        !.max_depth = s.step_idx,
        !.events = Append(@, _create_event(
                        s.sessions[s.session], s.users[s.user],
                        FUNNEL_EVENTS[s.step_idx + 1], s.event_time + d,
                        s.step_idx, s.browsed_product, Uuid4Hex(s, 1))),
        !.sessions[s.session].converted =
            @ \/ FUNNEL_EVENTS[s.step_idx + 1] = "purchase",
        !.users[s.user].is_customer =
            @ \/ FUNNEL_EVENTS[s.step_idx + 1] = "purchase",
        !.uuid_calls = @ + 1,
        !.step_idx = @ + 1,
        !.pc = IF s.step_idx + 1 < Len(FUNNEL_EVENTS) THEN "for_step" ELSE "end_walk"]

\* lines 385-392: the event of the step that fired; then line 373 again, or
\* line 408 when the last step has fired
advance_step(s, d) ==
    [s EXCEPT
        !.event_time = @ + d,
        !.max_depth = s.step_idx,
        !.events = Append(@, _create_event(
                        s.sessions[s.session], s.users[s.user],
                        FUNNEL_EVENTS[s.step_idx + 1], s.event_time + d,
                        s.step_idx, s.browsed_product, Uuid4Hex(s, 1))),
        !.uuid_calls = @ + 1,
        !.step_idx = @ + 1,
        !.pc = IF s.step_idx + 1 < Len(FUNNEL_EVENTS) THEN "for_step" ELSE "end_walk"]

\* variant: a step may take up to an hour
IntraDelays_up_to_an_hour == RandInt(INTRA_SESSION_DELAY_SECONDS[1], 3600)

IntraDelays ==
    RandInt(INTRA_SESSION_DELAY_SECONDS[1], INTRA_SESSION_DELAY_SECONDS[2])

\* lines 384-392 with line 394 false
Advance ==
    /\ sim.pc = "for_step" /\ twin.pc = "for_step"
    /\ ~OrderDue(sim)
    /\ \E r \in Vals(RandomVals), d \in Explored(IntraDelays) :
         /\ Fires(sim, r) /\ Fires(twin, r)
         /\ Spend(Odd(d, IntraDelays))
         /\ LET step(s) ==
                    advance_step(s, d)
            IN  sim' = step(sim) /\ twin' = step(twin)
    /\ UNCHANGED <<pure, inputs, formatter, outputs>>

\* variant: line 397 is missing, the session is not marked converted
order_step_unmarked(s, draw) ==
    LET order == _create_order(s.sessions[s.session], s.users[s.user],
                               s.event_time, product_catalog, draw)
    IN  [s EXCEPT
            !.orders = Append(@, order),
            !.users[s.user].is_customer = TRUE,
            !.users[s.user].order_count = @ + 1,
            !.users[s.user].email = order.customer_email]

\* variant: line 588 is missing, the email of the user is not backfilled
order_step_without_email(s, draw) ==
    LET order == _create_order(s.sessions[s.session], s.users[s.user],
                               s.event_time, product_catalog, draw)
    IN  [s EXCEPT
            !.orders = Append(@, order),
            !.sessions[s.session].converted = TRUE,
            !.users[s.user].is_customer = TRUE,
            !.users[s.user].order_count = @ + 1]

\* lines 395-404: the order of the purchase that has just fired (advance_step
\* has run: the event is there and event_time is the purchase time)
order_step(s, draw) ==
    LET order == _create_order(s.sessions[s.session], s.users[s.user],
                               s.event_time, product_catalog, draw)
    IN  [s EXCEPT
            !.orders = Append(@, order),
            !.sessions[s.session].converted = TRUE,
            !.users[s.user].is_customer = TRUE,
            !.users[s.user].order_count = @ + 1,
            !.users[s.user].email = order.customer_email]

NItems == RandInt(1, 4)

Quantities == RandInt(1, 3)

\* fake.free_email_domain() is called only for a user with no email (line 587)
DomainsFor(u) == IF u.email = NoEmail THEN FreeEmailDomains ELSE <<"">>

\* how many of the outcomes of the calls of _create_order are odd
OddOfOrder(draw) ==
    Odd(draw.n_items, NItems)
    + SumSeq([i \in 1 .. draw.n_items |-> Odd(draw.sel[i], ChoiceIndex(product_catalog))])
    + SumSeq([i \in 1 .. draw.n_items |-> Odd(draw.qty[i], Quantities)])
    + Odd(draw.domain, DomainsFor(sim.users[sim.user]))
    + Odd(draw.order_id, OrderIdVals)
    + Odd(draw.status, ChoiceIndex(FulfillmentStatuses))

\* lines 384-404 with line 394 true
Purchase ==
    /\ sim.pc = "for_step" /\ twin.pc = "for_step"
    /\ OrderDue(sim)
    /\ \E r \in Vals(RandomVals) :
       /\ Fires(sim, r) /\ Fires(twin, r)
       /\ \E d \in Explored(IntraDelays), n_items \in Explored(NItems) :
          \E sel \in [1 .. n_items -> Explored(ChoiceIndex(product_catalog))],
             qty \in [1 .. n_items -> Explored(Quantities)],
             domain \in Explored(DomainsFor(sim.users[sim.user])),
             order_id \in Explored(OrderIdVals),
             status \in Explored(ChoiceIndex(FulfillmentStatuses)) :
            LET draw == [n_items |-> n_items, sel |-> sel, qty |-> qty,
                         domain |-> domain, order_id |-> order_id,
                         status |-> status]
            IN  /\ Spend(Odd(d, IntraDelays) + OddOfOrder(draw))
                /\ LET step(s) ==
                           order_step(advance_step(s, d), draw)
                   IN  sim' = step(sim) /\ twin' = step(twin)
    /\ UNCHANGED <<pure, inputs, formatter, outputs>>

\* variant: the draw fails and the walk goes on to the next step
DropOff_and_try_next ==
    /\ sim.pc = "for_step" /\ twin.pc = "for_step"
    /\ \E r \in Vals(RandomVals) : ~Fires(sim, r) /\ ~Fires(twin, r)
    /\ LET step(s) ==
               [s EXCEPT !.step_idx = @ + 1,
                         !.pc = IF s.step_idx + 1 < Len(FUNNEL_EVENTS)
                                THEN "for_step" ELSE "end_walk"]
       IN  sim' = step(sim) /\ twin' = step(twin)
    /\ UNCHANGED <<pure, inputs, odd_draws, formatter, outputs>>

\* lines 405-406: the draw fails and the walk of this session stops
DropOff ==
    /\ sim.pc = "for_step" /\ twin.pc = "for_step"
    /\ \E r \in Vals(RandomVals) : ~Fires(sim, r) /\ ~Fires(twin, r)
    /\ LET step(s) ==
               [s EXCEPT !.pc = "end_walk"]
       IN  sim' = step(sim) /\ twin' = step(twin)
    /\ UNCHANGED <<pure, inputs, odd_draws, formatter, outputs>>

\* variant: line 408 is missing
record_depth_skipped(s) == s

\* variant: line 408 writes the depth into every session of the result
record_depth_everywhere(s) ==
    [s EXCEPT !.sessions = [k \in 1 .. Len(s.sessions) |->
                               [s.sessions[k] EXCEPT !.max_funnel_depth = s.max_depth]]]

\* line 408
record_depth(s) == [s EXCEPT !.sessions[s.session].max_funnel_depth = s.max_depth]

InterDelays ==
    RandInt(INTER_SESSION_DELAY_SECONDS[1], INTER_SESSION_DELAY_SECONDS[2])

\* variant: the delay to the next session runs from the start of this one
Return_from_session_start ==
    /\ sim.pc = "end_walk" /\ twin.pc = "end_walk"
    /\ \E r \in Vals(RandomVals), d \in Explored(InterDelays) :
         /\ r < return_prob(sim.max_depth) /\ r < return_prob(twin.max_depth)
         /\ Spend(Odd(d, InterDelays))
         /\ LET step(s) ==
                    [record_depth(s) EXCEPT
                                    !.current_time = s.current_time + d,
                                    !.return_draw = <<r>>,
                                    !.pc = "while_session"]
            IN  sim' = step(sim) /\ twin' = step(twin)
    /\ UNCHANGED <<pure, inputs, formatter, outputs>>

\* lines 408-414: the depth is recorded and the user comes back later
Return ==
    /\ sim.pc = "end_walk" /\ twin.pc = "end_walk"
    /\ \E r \in Vals(RandomVals), d \in Explored(InterDelays) :
         /\ r < return_prob(sim.max_depth) /\ r < return_prob(twin.max_depth)
         /\ Spend(Odd(d, InterDelays))
         /\ LET step(s) ==
                    [record_depth(s) EXCEPT
                                    !.current_time = s.event_time + d,
                                    !.return_draw = <<r>>,
                                    !.pc = "while_session"]
            IN  sim' = step(sim) /\ twin' = step(twin)
    /\ UNCHANGED <<pure, inputs, formatter, outputs>>

\* lines 408-416: the depth is recorded and the user does not come back
NoReturn ==
    /\ sim.pc = "end_walk" /\ twin.pc = "end_walk"
    /\ \E r \in Vals(RandomVals) :
         /\ ~(r < return_prob(sim.max_depth)) /\ ~(r < return_prob(twin.max_depth))
         /\ LET step(s) ==
                    [record_depth(s) EXCEPT
                                    !.has_more_sessions = FALSE,
                                    !.return_draw = <<r>>,
                                    !.pc = "while_session"]
            IN  sim' = step(sim) /\ twin' = step(twin)
    /\ UNCHANGED <<pure, inputs, odd_draws, formatter, outputs>>

\* lines 418-419: _print_summary divides by the number of sessions (line
\* 861), then the result is returned
\* lines 840-843: the sessions whose max_funnel_depth is d
depth_counts(s, d) ==
    Cardinality({k \in 1 .. Len(s.sessions) : s.sessions[k].max_funnel_depth = d})

\* variant: the sessions dropped at step i are taken off before step i is
\* recorded
RECURSIVE cumulative_after_drop(_, _)
cumulative_after_drop(s, i) ==
    IF i = 0 THEN Len(s.sessions) - depth_counts(s, 0)
    ELSE cumulative_after_drop(s, i - 1) - depth_counts(s, i)

\* lines 845-849: cumulative[i], running being n_sessions less the sessions
\* dropped at the steps before i
RECURSIVE cumulative(_, _)
cumulative(s, i) ==
    IF i = 0 THEN Len(s.sessions)
    ELSE cumulative(s, i - 1) - depth_counts(s, i - 1)

\* lines 858-865: the 'Reached' column, one row per funnel step; the first
\* row divides by n_sessions (line 861)
print_summary_step(s) ==
    IF Len(s.sessions) = 0
    THEN [s EXCEPT !.pc = "ZeroDivisionError"]
    ELSE [s EXCEPT !.pc = "returned",
                   !.reached = [i \in 1 .. Len(FUNNEL_EVENTS) |-> cumulative(s, i - 1)]]

PrintSummary ==
    /\ sim.pc = "summary" /\ twin.pc = "summary"
    /\ sim' = print_summary_step(sim) /\ twin' = print_summary_step(twin)
    /\ UNCHANGED <<pure, inputs, odd_draws, formatter, outputs>>

\* ------------------------------------------------------- the formatters
\* hash(n) of an int n with 0 <= n < 2^61 - 1
HashInt(n) == n

\* hash(x) % m + plus of a str x: the hash depends on the seed of the process
HashStr(s, x, m, plus) == [hash |-> x, seed |-> s.hash_seed, mod |-> m, plus |-> plus]

\* str(n)
Str(n) == <<"str", n>>

\* strftime("%Y%m%d"), strftime("%Y-%m-%d %H:%M:%S"), int(timestamp() * 1000000)
Date(t) == t \div SecondsPerDay

DateTime(t) == <<t \div SecondsPerDay, t % SecondsPerDay>>

Micros(t) == <<t, "000000">>

\* sim.session_index.get(id, {}) and sim.user_index.get(id, {})
SessionOf(s, id) == s.sessions[s.session_index[id]]

UserOf(s, id) == s.users[s.user_index[id]]

\* the line items of the orders before order i
ItemsBefore(s, i) == SumSeq([j \in 1 .. (i - 1) |-> Len(s.orders[j].line_items)])

\* ids holds the outcomes of random.randint (line 637), one per line item;
\* nows those of datetime.now() (line 660), one per product.
_format_shopify(products, s, ids, nows) ==
    [orders |->
        [i \in 1 .. Len(s.orders) |->
            LET o == s.orders[i]
            IN  [id               |-> o.order_id,
                 name             |-> <<"#", o.order_id % 100000>>,
                 email            |-> o.customer_email,
                 total_price      |-> o.total_price,
                 currency         |-> o.currency,
                 financial_status |-> o.financial_status,
                 status           |-> o.fulfillment_status,
                 customer_id      |-> HashStr(s, o.customer_id, 1000, 0),
                 customer_email   |-> o.customer_email,
                 created_at       |-> o.timestamp,
                 line_items       |->
                    [k \in 1 .. Len(o.line_items) |->
                        [id         |-> ids[ItemsBefore(s, i) + k],
                         product_id |-> (HashInt(o.line_items[k].product_id) % 900000) + 100000]]]],
     products |->
        [i \in 1 .. Len(products) |->
            [id         |-> (HashInt(products[i].id) % 900000) + 100000,
             title      |-> products[i].title,
             price      |-> products[i].price,
             created_at |-> nows[i]]]]

\* variant: every line item of a row is given the quantity 1
_format_woocommerce_unit_quantity(products, s, nows) ==
    [orders |->
        [i \in 1 .. Len(s.orders) |->
            LET o == s.orders[i]
            IN  [id            |-> o.order_id % 100000,
                 number        |-> Str(o.order_id),
                 status        |-> IF o.financial_status = "paid"
                                   THEN "completed" ELSE "processing",
                 total_price   |-> o.total_price,
                 currency      |-> o.currency,
                 customer_id   |-> HashStr(s, o.customer_id, 1000, 0),
                 billing_email |-> o.customer_email,
                 line_items    |->
                    [k \in 1 .. Len(o.line_items) |->
                        [product_id |-> (HashInt(o.line_items[k].product_id) % 90000) + 1000,
                         name       |-> o.line_items[k].title,
                         quantity   |-> 1,
                         price      |-> o.line_items[k].price]],
                 created_at    |-> o.timestamp]],
     products |->
        [i \in 1 .. Len(products) |->
            [id         |-> (HashInt(products[i].id) % 90000) + 1000,
             name       |-> products[i].title,
             price      |-> products[i].price,
             created_at |-> nows[i]]]]

_format_woocommerce(products, s, nows) ==
    [orders |->
        [i \in 1 .. Len(s.orders) |->
            LET o == s.orders[i]
            IN  [id            |-> o.order_id % 100000,
                 number        |-> Str(o.order_id),
                 status        |-> IF o.financial_status = "paid"
                                   THEN "completed" ELSE "processing",
                 total_price   |-> o.total_price,
                 currency      |-> o.currency,
                 customer_id   |-> HashStr(s, o.customer_id, 1000, 0),
                 billing_email |-> o.customer_email,
                 line_items    |->
                    [k \in 1 .. Len(o.line_items) |->
                        [product_id |-> (HashInt(o.line_items[k].product_id) % 90000) + 1000,
                         name       |-> o.line_items[k].title,
                         quantity   |-> o.line_items[k].quantity,
                         price      |-> o.line_items[k].price]],
                 created_at    |-> o.timestamp]],
     products |->
        [i \in 1 .. Len(products) |->
            [id         |-> (HashInt(products[i].id) % 90000) + 1000,
             name       |-> products[i].title,
             price      |-> products[i].price,
             created_at |-> nows[i]]]]

_format_bigcommerce(products, s) ==
    [orders |->
        [i \in 1 .. Len(s.orders) |->
            LET o == s.orders[i]
                is_paid == o.financial_status = "paid"
            IN  [id          |-> (o.order_id % 200000) + 90000,
                 status_id   |-> IF is_paid THEN 11 ELSE 2,
                 status      |-> IF is_paid THEN "Completed" ELSE "Shipped",
                 total_price |-> o.total_price,
                 currency    |-> o.currency,
                 customer_id |-> HashStr(s, o.customer_id, 1500, 500),
                 created_at  |-> o.timestamp]],
     products |->
        [i \in 1 .. Len(products) |->
            [id    |-> (HashInt(products[i].id) % 90000) + 20000,
             name  |-> products[i].title,
             price |-> products[i].price]]]

\* variant: line 741 is missing, every event of a session with an order is
\* matched to it
OrderMatch_any_event(s, evt) ==
    LET matching == {j \in 1 .. Len(s.orders) :
                        s.orders[j].session_id = evt.session_id}
    IN  IF matching # {}
        THEN CHOOSE j \in matching : \A k \in matching : j <= k
        ELSE 0

\* lines 740-745: the first order of the session of a purchase event, or 0
OrderMatch(s, evt) ==
    LET matching == {j \in 1 .. Len(s.orders) :
                        s.orders[j].session_id = evt.session_id}
    IN  IF evt.event_name = "purchase" /\ matching # {}
        THEN CHOOSE j \in matching : \A k \in matching : j <= k
        ELSE 0

_format_ga4(s) ==
    [events |->
        [i \in 1 .. Len(s.events) |->
            LET evt == s.events[i]
                session == SessionOf(s, evt.session_id)
                order_match == OrderMatch(s, evt)
            IN  [event_name               |-> evt.event_name,
                 event_date               |-> Date(evt.timestamp),
                 event_timestamp          |-> Micros(evt.timestamp),
                 user_pseudo_id           |-> <<"ga_", evt.cookie_id>>,
                 user_id                  |-> evt.user_id,
                 geo_country              |-> session.geo_country,
                 geo_city                 |-> session.geo_city,
                 traffic_source_source    |-> session.utm_source,
                 traffic_source_medium    |-> session.utm_medium,
                 traffic_source_campaign  |-> session.utm_campaign,
                 device_category          |-> session.device_category,
                 ga_session_id            |-> Suffix(evt.session_id, 8),
                 ecommerce_transaction_id |->
                    IF order_match # 0
                    THEN Str(s.orders[order_match].order_id) ELSE <<"N/A">>,
                 ecommerce_value          |->
                    IF order_match # 0
                    THEN s.orders[order_match].total_price ELSE 0,
                 ecommerce_currency       |-> "USD"]]]

_format_amplitude(s) ==
    [events |->
        [i \in 1 .. Len(s.events) |->
            LET evt == s.events[i]
                user == UserOf(s, evt.user_id)
            IN  [event_id    |-> evt.event_id,
                 event_type  |-> evt.event_name,
                 user_id     |-> evt.user_id,
                 event_time  |-> DateTime(evt.timestamp),
                 device_type |-> user.device_category,
                 country     |-> user.geo_country]],
     users |->
        [i \in 1 .. Len(s.users) |->
            [user_id     |-> s.users[i].user_id,
             device_type |-> s.users[i].device_category,
             country     |-> s.users[i].geo_country]]]

\* browsers holds the outcomes of random.choice (line 803), one per event.
_format_mixpanel(s, browsers) ==
    [events |->
        [i \in 1 .. Len(s.events) |->
            LET evt == s.events[i]
                session == SessionOf(s, evt.session_id)
                user == UserOf(s, evt.user_id)
            IN  [event             |-> evt.event_name,
                 prop_distinct_id  |-> evt.user_id,
                 prop_time         |-> evt.timestamp,
                 prop_browser      |-> Browsers[browsers[i]],
                 prop_city         |-> user.geo_city,
                 prop_country_code |-> user.geo_country,
                 prop_device_type  |-> user.device_category,
                 prop_utm_source   |-> session.utm_source,
                 prop_utm_medium   |-> session.utm_medium,
                 prop_utm_campaign |-> session.utm_campaign]],
     people |->
        LET with_email == SelectSeq(s.users, LAMBDA u : u.email # NoEmail)
        IN  [i \in 1 .. Len(with_email) |->
                [distinct_id |-> with_email[i].user_id,
                 city        |-> with_email[i].geo_city,
                 email       |-> with_email[i].email]]]

\* the outcomes explored for n calls in a row
ExploredSeq(n, outcomes) ==
    IF odd_draws < MaxOddDraws
    THEN {q \in [1 .. n -> Vals(outcomes)] :
            odd_draws + SumSeq([i \in 1 .. n |-> Odd(q[i], outcomes)]) <= MaxOddDraws}
    ELSE {[i \in 1 .. n |-> outcomes[1]]}

OddOfSeq(q, outcomes) == SumSeq([i \in 1 .. Len(q) |-> Odd(q[i], outcomes)])

\* one formatter is applied, once or again, to the result sim has returned
MayFormat(name) ==
    /\ sim.pc = "returned"
    /\ formatter \in {"none", name}
    /\ Len(outputs) < MaxFormatCalls

Formatted(name, rows) ==
    /\ formatter' = name
    /\ outputs' = Append(outputs, rows)
    /\ UNCHANGED <<pure, inputs, sim, twin>>

FormatShopify ==
    /\ MayFormat("shopify")
    /\ \E ids \in ExploredSeq(ItemsBefore(sim, Len(sim.orders) + 1), LineItemIds),
          nows \in ExploredSeq(Len(product_catalog), Nows) :
         /\ Spend(OddOfSeq(ids, LineItemIds) + OddOfSeq(nows, Nows))
         /\ Formatted("shopify", _format_shopify(product_catalog, sim, ids, nows))

FormatWoocommerce ==
    /\ MayFormat("woocommerce")
    /\ \E nows \in ExploredSeq(Len(product_catalog), Nows) :
         /\ Spend(OddOfSeq(nows, Nows))
         /\ Formatted("woocommerce", _format_woocommerce(product_catalog, sim, nows))

FormatBigcommerce ==
    /\ MayFormat("bigcommerce")
    /\ Formatted("bigcommerce", _format_bigcommerce(product_catalog, sim))
    /\ UNCHANGED odd_draws

FormatGa4 ==
    /\ MayFormat("google_analytics")
    /\ Formatted("google_analytics", _format_ga4(sim))
    /\ UNCHANGED odd_draws

FormatAmplitude ==
    /\ MayFormat("amplitude")
    /\ Formatted("amplitude", _format_amplitude(sim))
    /\ UNCHANGED odd_draws

FormatMixpanel ==
    /\ MayFormat("mixpanel")
    /\ \E browsers \in ExploredSeq(Len(sim.events), ChoiceIndex(Browsers)) :
         /\ Spend(OddOfSeq(browsers, ChoiceIndex(Browsers)))
         /\ Formatted("mixpanel", _format_mixpanel(sim, browsers))

Next ==
    \/ CreateUser
    \/ StartSession
    \/ EndSessions
    \/ Advance
    \/ Purchase
    \/ DropOff
    \/ Return
    \/ NoReturn
    \/ EndUsers
    \/ PrintSummary
    \/ FormatShopify
    \/ FormatWoocommerce
    \/ FormatBigcommerce
    \/ FormatGa4
    \/ FormatAmplitude
    \/ FormatMixpanel

Spec == Init /\ [][Next]_vars

\* two executions in two processes that need not be the same one
InitTwin ==
    /\ InitInputs
    /\ \E p \in Processes, q \in Processes :
         sim = Started(p[1], p[2], p[3]) /\ twin = Started(q[1], q[2], q[3])

SpecTwin == InitTwin /\ [][Next]_vars

\* ------------------------------------------- the traffic functions alone
\* _build_traffic_sources on a campaign pool, then _pick_traffic on the
\* sources it returned
InitTraffic ==
    /\ days = 1
    /\ funnel_config = FunnelConfig
    /\ campaign_pool \in TrafficPools
    /\ product_catalog = <<>>
    /\ sim = Started(10, "e1", "h1") /\ twin = sim
    /\ odd_draws = 0
    /\ formatter = "none"
    /\ outputs = <<>>
    /\ request = <<>>
    /\ returned = <<>>

BuildTrafficSources ==
    /\ returned = <<>>
    /\ returned' = <<_build_traffic_sources(campaign_pool)>>
    /\ UNCHANGED <<request, inputs, sim, twin, odd_draws, formatter, outputs>>

PickTraffic ==
    /\ Len(returned) = 1
    /\ \E u \in PickVals :
         LET selected == pick_weighted(returned[1], u)
         IN  \E c \in 1 .. Max(Len(selected.campaigns), 1) :
                returned' = Append(returned, _pick_traffic(returned[1], u, c))
    /\ UNCHANGED <<request, inputs, sim, twin, odd_draws, formatter, outputs>>

NextTraffic ==
    \/ BuildTrafficSources
    \/ PickTraffic

SpecTraffic == InitTraffic /\ [][NextTraffic]_vars

\* ------------------------------------------------ the query builder alone
\* src/services/platform-api: a SemanticQueryRequest is validated by pydantic
\* and QueryBuilder.build_query is called with it. The SQL text is kept as the
\* list sql_parts that line 142 joins with "\n", each part with its keyword,
\* its items and the separator of the items.

\* QueryBuilder(config): the semantic config of one tenant, two models
SemanticConfig ==
    [models |->
      <<[name |-> "fct_ad_performance",
         dimensions |-> <<[name |-> "source_platform"], [name |-> "report_date"]>>,
         measures |-> <<[name |-> "spend", agg |-> "sum"]>>,
         calculated_measures |->
            <<[name |-> "ctr", sql |-> "SUM(clicks) / SUM(impressions)"]>>,
         joins |-> <<[to |-> "dim_campaigns", type |-> "left",
                      on |-> <<<<"campaign_id", "campaign_id">>>>]>>],
        [name |-> "fct_orders",
         dimensions |-> <<[name |-> "order_date"]>>,
         measures |-> <<[name |-> "order_id", agg |-> "count_distinct"]>>,
         calculated_measures |-> <<>>,
         joins |-> <<>>]>>]

\* models.py line 7
VALID_OPS ==
    {"=", "!=", ">", "<", ">=", "<=", "IN", "LIKE", "BETWEEN", "IS NULL", "IS NOT NULL"}

\* str.upper() on the words it is applied to
Upper(op) ==
    CASE op = "in" -> "IN"
      [] op = "between" -> "BETWEEN"
      [] op = "is null" -> "IS NULL"
      [] op = "drop table" -> "DROP TABLE"
      [] op = "left" -> "LEFT"
      [] op = "asc" -> "ASC"
      [] op = "desc" -> "DESC"
      [] OTHER -> op

\* a filter value: a scalar or a list (isinstance(f.value, list))
Scalar(v) == [is_list |-> FALSE, items |-> <<v>>]

List(vs) == [is_list |-> TRUE, items |-> vs]

\* the arguments build_query is called with
TenantSlugs == {"tyrell_corp", "wayne_ent"}

ModelNames == {"fct_ad_performance", "fct_orders", "fct_nonexistent"}

DimensionLists == {<<>>, <<"source_platform", "report_date">>, <<"order_date">>}

MeasureLists == {<<>>, <<"spend">>, <<"order_id">>}

CalculatedLists == {<<>>, <<"ctr">>, <<"roas">>}

JoinLists == {<<>>, <<"dim_campaigns">>, <<"dim_nonexistent">>}

FilterFields == {"report_date", "ctr", "tenant_slug", "nonexistent_field"}

FilterOps == {">=", "in", "BETWEEN", "IS NULL", "drop table"}

FilterValues == {Scalar("wayne_ent"), List(<<"a", "b", "c">>)}

FilterLists ==
    UNION { [1 .. n -> [field : FilterFields, op : FilterOps, value : FilterValues]]
            : n \in 0 .. MaxFilters }

OrderByLists ==
    {<<>>, <<[field |-> "ctr", dir |-> "desc"]>>,
     <<[field |-> "nonexistent_field", dir |-> "asc"]>>}

\* limit: None, the default, and one above the maximum
Limits == {<<>>, <<1000>>, <<10001>>}

Requests ==
    [tenant_slug : TenantSlugs, model : ModelNames, dimensions : DimensionLists,
     measures : MeasureLists, calculated_measures : CalculatedLists,
     filters : FilterLists, joins : JoinLists, order_by : OrderByLists,
     limit : Limits, state : {"raw"}]

\* models.py lines 15-20 and 38-43: the validators of QueryFilter.op and of
\* SemanticQueryRequest.limit
validate_operator(op) == Upper(op) \in VALID_OPS

validate_limit(limit) == ~(limit # <<>> /\ limit[1] > 10000)

validated(req) ==
    IF /\ \A i \in 1 .. Len(req.filters) : validate_operator(req.filters[i].op)
       /\ validate_limit(req.limit)
    THEN [req EXCEPT
            !.filters = [i \in 1 .. Len(req.filters) |->
                            [req.filters[i] EXCEPT !.op = Upper(@)]],
            !.state = "valid"]
    ELSE [req EXCEPT !.state = "ValidationError"]

\* {x["name"] for x in seq}, {j["to"] for j in seq}
Names(seq) == {seq[i].name : i \in 1 .. Len(seq)}

Targets(seq) == {seq[i].to : i \in 1 .. Len(seq)}

\* {m["name"]: m for m in seq}[k] and {j["to"]: j for j in seq}[k]: the last
\* entry of the key
ByName(seq, k) ==
    seq[CHOOSE i \in 1 .. Len(seq) :
            seq[i].name = k /\ \A j \in (i + 1) .. Len(seq) : seq[j].name # k]

ByTarget(seq, k) ==
    seq[CHOOSE i \in 1 .. Len(seq) :
            seq[i].to = k /\ \A j \in (i + 1) .. Len(seq) : seq[j].to # k]

\* raise ValueError(...)
ValueError(message) == [raised |-> TRUE, error |-> message, sql |-> <<>>, params |-> <<>>]

Part(keyword, items, sep) == [keyword |-> keyword, items |-> items, sep |-> sep]

\* lines 46-67
select_parts(model, req, prefix) ==
    LET dims == [i \in 1 .. Len(req.dimensions) |-> prefix \o req.dimensions[i]]
        meas == [i \in 1 .. Len(req.measures) |->
                    LET m == req.measures[i]
                        mc == ByName(model.measures, m)
                        col_ref == prefix \o m
                    IN  CASE mc.agg = "count_distinct" ->
                                "COUNT(DISTINCT " \o col_ref \o ") AS " \o m
                          [] mc.agg = "count" -> "COUNT(" \o col_ref \o ") AS " \o m
                          [] mc.agg = "avg" -> "AVG(" \o col_ref \o ") AS " \o m
                          [] OTHER -> "SUM(" \o col_ref \o ") AS " \o m]
        calc == [i \in 1 .. Len(req.calculated_measures) |->
                    LET c == req.calculated_measures[i]
                    IN  ByName(model.calculated_measures, c).sql \o " AS " \o c]
        all == dims \o meas \o calc
    IN  IF all = <<>> THEN <<"*">> ELSE all

\* lines 78-87
join_parts(model, req) ==
    [i \in 1 .. Len(req.joins) |->
        LET j == req.joins[i]
            jc == ByTarget(model.joins, j)
        IN  Part(Upper(jc.type) \o " JOIN " \o j \o " ON",
                 [k \in 1 .. Len(jc.on) |->
                    "base." \o jc.on[k][1] \o " = " \o j \o "." \o jc.on[k][2]],
                 " AND ")]

\* lines 102-116: the clause of one filter, and the parameters it adds
filter_clause(f, prefix) ==
    LET col_ref == prefix \o f.field
        values == f.value.items
    IN  CASE f.op \in {"IS NULL", "IS NOT NULL"} -> col_ref \o " " \o f.op
          [] f.op = "IN" ->
                col_ref \o " IN (" \o
                (IF Len(values) = 1 THEN "?"
                 ELSE IF Len(values) = 2 THEN "?, ?" ELSE "?, ?, ?") \o ")"
          [] f.op = "BETWEEN" -> col_ref \o " BETWEEN ? AND ?"
          [] OTHER -> col_ref \o " " \o f.op \o " ?"

filter_params(f) ==
    LET values == f.value.items
    IN  CASE f.op \in {"IS NULL", "IS NOT NULL"} -> <<>>
          [] f.op = "IN" -> values
          [] f.op = "BETWEEN" -> SubSeq(values, 1, Min(2, Len(values)))
          [] OTHER -> <<IF f.value.is_list THEN f.value ELSE f.value.items[1]>>

RECURSIVE Flatten(_)
Flatten(seqs) == IF seqs = <<>> THEN <<>> ELSE Head(seqs) \o Flatten(Tail(seqs))

\* variant: the tenant predicate and its parameter come after the filters
where_tenant_last(tenant_slug, req, prefix) ==
    [clauses |-> [i \in 1 .. Len(req.filters) |-> filter_clause(req.filters[i], prefix)]
                    \o <<prefix \o "tenant_slug = ?">>,
     params  |-> Flatten([i \in 1 .. Len(req.filters) |-> filter_params(req.filters[i])])
                    \o <<tenant_slug>>]

\* lines 90-92 and 96-118: where_clauses and params
where(tenant_slug, req, prefix) ==
    [clauses |-> <<prefix \o "tenant_slug = ?">>
                    \o [i \in 1 .. Len(req.filters) |-> filter_clause(req.filters[i], prefix)],
     params  |-> <<tenant_slug>>
                    \o Flatten([i \in 1 .. Len(req.filters) |-> filter_params(req.filters[i])])]

\* variant: the check of line 97 without its exception for tenant_slug
filter_field_known_strictly(field, all_fields) == field \in all_fields

\* line 97, negated: the filter field is accepted
filter_field_known(field, all_fields) == field \in all_fields \/ field = "tenant_slug"

\* lines 9-142
build_query(tenant_slug, req) ==
    LET found == SelectSeq(SemanticConfig.models, LAMBDA m : m.name = req.model)
    IN  IF found = <<>> THEN ValueError("Model not found in config") ELSE
    LET model == found[Len(found)]
        valid_dims == Names(model.dimensions)
        valid_measures == Names(model.measures)
        valid_calc == Names(model.calculated_measures)
        valid_joins == Targets(model.joins)
        has_joins == Len(req.joins) > 0
        prefix == IF has_joins THEN "base." ELSE ""
        all_fields == valid_dims \union valid_measures
        all_selectable == all_fields \union valid_calc
        w == where(tenant_slug, req, prefix)
        positions == [i \in 1 .. Len(req.dimensions) |-> i]
    IN  IF \E i \in 1 .. Len(req.dimensions) : req.dimensions[i] \notin valid_dims
        THEN ValueError("Unknown dimension")
        ELSE IF \E i \in 1 .. Len(req.measures) : req.measures[i] \notin valid_measures
        THEN ValueError("Unknown measure")
        ELSE IF \E i \in 1 .. Len(req.calculated_measures) :
                    req.calculated_measures[i] \notin valid_calc
        THEN ValueError("Unknown calculated measure")
        ELSE IF \E i \in 1 .. Len(req.joins) : req.joins[i] \notin valid_joins
        THEN ValueError("Unknown join target")
        ELSE IF \E i \in 1 .. Len(req.filters) :
                    ~filter_field_known(req.filters[i].field, all_fields)
        THEN ValueError("Unknown filter field")
        ELSE IF \E i \in 1 .. Len(req.order_by) : req.order_by[i].field \notin all_selectable
        THEN ValueError("Unknown order_by field")
        ELSE
                [raised |-> FALSE,
                 error  |-> "",
                 sql    |->
                    <<Part("SELECT", select_parts(model, req, prefix), ", ")>>
                    \o <<Part("FROM", <<IF has_joins THEN req.model \o " AS base"
                                        ELSE req.model>>, "")>>
                    \o join_parts(model, req)
                    \o <<Part("WHERE", w.clauses, " AND ")>>
                    \o (IF req.dimensions # <<>>
                           /\ (req.measures # <<>> \/ req.calculated_measures # <<>>)
                        THEN <<Part("GROUP BY", positions, ", ")>> ELSE <<>>)
                    \o (IF req.order_by # <<>>
                        THEN <<Part("ORDER BY",
                                    [i \in 1 .. Len(req.order_by) |->
                                        req.order_by[i].field \o " "
                                        \o Upper(req.order_by[i].dir)],
                                    ", ")>>
                        ELSE <<>>)
                    \o (IF req.limit # <<>>
                        THEN <<Part("LIMIT", req.limit, "")>> ELSE <<>>),
                 params |-> w.params]

InitQuery ==
    /\ days = 1
    /\ funnel_config = FunnelConfig
    /\ campaign_pool = <<>>
    /\ product_catalog = <<>>
    /\ sim = Started(10, "e1", "h1") /\ twin = sim
    /\ odd_draws = 0
    /\ formatter = "none"
    /\ outputs = <<>>
    /\ request \in Requests
    /\ returned = <<>>

\* SemanticQueryRequest(...): pydantic validates the fields
ValidateRequest ==
    /\ request.state = "raw"
    /\ request' = validated(request)
    /\ UNCHANGED <<returned, inputs, sim, twin, odd_draws, formatter, outputs>>

\* qb.build_query(tenant_slug, request)
BuildQuery ==
    /\ request.state = "valid"
    /\ returned = <<>>
    /\ returned' = <<build_query(request.tenant_slug, request)>>
    /\ UNCHANGED <<request, inputs, sim, twin, odd_draws, formatter, outputs>>

NextQuery ==
    \/ ValidateRequest
    \/ BuildQuery

SpecQuery == InitQuery /\ [][NextQuery]_vars

\* ------------------------------------------- the loops of _run_simulation
\* The loops of lines 343-416 with the records left out: of an execution
\* only what the loop conditions read is kept, in returned.
MaxJourneySessions == 50

\* users whose loop is followed
JourneyUsers == 1

\* a funnel_config whose return_rates are 1.0 at every depth and whose
\* advance_rates are 0.0: every session is a bounce and the user comes back
FunnelConfigAlwaysReturns ==
    [FunnelConfig EXCEPT
        !.advance_rates = [k \in DOMAIN FunnelConfig.advance_rates |-> 0],
        !.return_rates = [d \in 0 .. 5 |-> 100]]

JourneyStarted(t) ==
    [today |-> t, pc |-> "for_user", n_users |-> 0, current_time |-> 0,
     session_count |-> 0, has_more_sessions |-> FALSE, event_time |-> 0,
     max_depth |-> 0, step_idx |-> 0, is_customer |-> FALSE]

InitJourney ==
    /\ days = 1
    /\ funnel_config \in {FunnelConfig, FunnelConfigAlwaysReturns}
    /\ campaign_pool = <<>>
    /\ product_catalog \in ProductCatalogs \ {<<>>}
    /\ sim = Started(10, "e1", "h1") /\ twin = sim
    /\ odd_draws = 0
    /\ formatter = "none"
    /\ outputs = <<>>
    /\ request = <<>>
    /\ returned = JourneyStarted(10)

\* lines 343-352
JourneyCreateUser ==
    /\ returned.pc = "for_user"
    /\ returned.n_users < Min(total_users, JourneyUsers)
    /\ \E first_offset \in Explored(FirstOffsets) :
         /\ Spend(Odd(first_offset, FirstOffsets))
         /\ returned' = [returned EXCEPT
                            !.current_time = start_dt(returned) + first_offset,
                            !.n_users = @ + 1,
                            !.session_count = 0,
                            !.has_more_sessions = TRUE,
                            !.is_customer = FALSE,
                            !.pc = "while_session"]
    /\ UNCHANGED <<request, inputs, sim, twin, formatter, outputs>>

\* lines 418-419
JourneyEndUsers ==
    /\ returned.pc = "for_user"
    /\ ~(returned.n_users < Min(total_users, JourneyUsers))
    /\ returned' = [returned EXCEPT !.pc = "returned"]
    /\ UNCHANGED odd_draws
    /\ UNCHANGED <<request, inputs, sim, twin, formatter, outputs>>

\* lines 354-371
JourneyStartSession ==
    /\ returned.pc = "while_session"
    /\ MoreSessions(returned)
    /\ returned.session_count < MaxJourneySessions
    /\ returned' = [returned EXCEPT
                       !.session_count = @ + 1,
                       !.event_time = returned.current_time,
                       !.max_depth = 0,
                       !.step_idx = 1,
                       !.pc = "for_step"]
    /\ UNCHANGED odd_draws
    /\ UNCHANGED <<request, inputs, sim, twin, formatter, outputs>>

\* line 354, false
JourneyEndSessions ==
    /\ returned.pc = "while_session"
    /\ ~MoreSessions(returned)
    /\ returned' = [returned EXCEPT !.pc = "for_user"]
    /\ UNCHANGED odd_draws
    /\ UNCHANGED <<request, inputs, sim, twin, formatter, outputs>>

\* lines 373-404: the step fires
JourneyAdvance ==
    /\ returned.pc = "for_step"
    /\ \E r \in Vals(RandomVals), d \in Explored(IntraDelays) :
         /\ r * 100 < base_prob(returned.step_idx, returned)
         /\ Spend(Odd(d, IntraDelays))
         /\ returned' = [returned EXCEPT
                            !.event_time = @ + d,
                            !.max_depth = returned.step_idx,
                            !.is_customer = @ \/ OrderDue(returned),
                            !.step_idx = @ + 1,
                            !.pc = IF returned.step_idx + 1 < Len(FUNNEL_EVENTS)
                                   THEN "for_step" ELSE "end_walk"]
    /\ UNCHANGED <<request, inputs, sim, twin, formatter, outputs>>

\* lines 405-406
JourneyDropOff ==
    /\ returned.pc = "for_step"
    /\ \E r \in Vals(RandomVals) :
         ~(r * 100 < base_prob(returned.step_idx, returned))
    /\ returned' = [returned EXCEPT !.pc = "end_walk"]
    /\ UNCHANGED odd_draws
    /\ UNCHANGED <<request, inputs, sim, twin, formatter, outputs>>

\* variant: line 414 leaves current_time where it is
journey_return_in_place(j, d) == [j EXCEPT !.pc = "while_session"]

\* lines 413-414
journey_return(j, d) ==
    [j EXCEPT !.current_time = j.event_time + d, !.pc = "while_session"]

\* lines 411-414
JourneyReturn ==
    /\ returned.pc = "end_walk"
    /\ \E r \in Vals(RandomVals), d \in Explored(InterDelays) :
         /\ r < return_prob(returned.max_depth)
         /\ Spend(Odd(d, InterDelays))
         /\ returned' = journey_return(returned, d)
    /\ UNCHANGED <<request, inputs, sim, twin, formatter, outputs>>

\* lines 411-416
JourneyNoReturn ==
    /\ returned.pc = "end_walk"
    /\ \E r \in Vals(RandomVals) : ~(r < return_prob(returned.max_depth))
    /\ returned' = [returned EXCEPT !.has_more_sessions = FALSE,
                                    !.pc = "while_session"]
    /\ UNCHANGED odd_draws
    /\ UNCHANGED <<request, inputs, sim, twin, formatter, outputs>>

NextJourney ==
    \/ JourneyCreateUser
    \/ JourneyEndUsers
    \/ JourneyStartSession
    \/ JourneyEndSessions
    \/ JourneyAdvance
    \/ JourneyDropOff
    \/ JourneyReturn
    \/ JourneyNoReturn

\* the interpreter goes on to the next statement as long as there is one
SpecJourney == InitJourney /\ [][NextJourney]_vars /\ WF_vars(NextJourney)


\* ------------------------------------------ the probability of one step
\* lines 378-382 applied, for a visitor and for a customer, to the step
\* request of a funnel_config with any advance probability in [0, 1], in
\* hundredths, and a boost of at least 1.0
\* the advance probabilities, in hundredths, and the boosts, in hundredths
BoostInputs == (0 .. 100) \X {100, 140, 200}

InitBoost ==
    /\ days = 1
    /\ \E in \in BoostInputs :
         funnel_config =
            [FunnelConfig EXCEPT
                !.advance_rates = [k \in DOMAIN FunnelConfig.advance_rates |-> in[1]],
                !.returning_customer_boost = in[2]]
    /\ campaign_pool = <<>>
    /\ product_catalog = <<>>
    /\ sim = Started(10, "e1", "h1") /\ twin = sim
    /\ odd_draws = 0
    /\ formatter = "none"
    /\ outputs = <<>>
    /\ request \in 1 .. (Len(FUNNEL_EVENTS) - 1)
    /\ returned = <<>>

ApplyBoost ==
    /\ returned = <<>>
    /\ returned' = [visitor  |-> base_prob(request, [is_customer |-> FALSE]),
                    customer |-> base_prob(request, [is_customer |-> TRUE])]
    /\ UNCHANGED <<request, inputs, sim, twin, odd_draws, formatter, outputs>>

NextBoost ==
    \/ ApplyBoost

SpecBoost == InitBoost /\ [][NextBoost]_vars

\* ------------------------------------------------------------ the claims
\* C1: every Order's session_id is a key of session_index and the Session it
\* leads to has converted = true; every Event's session_id and user_id are
\* keys of session_index and user_index, which lead to the records with
\* these ids.  It holds of the result all along the simulation, so of the
\* result returned.
C1_OrdersAndEventsAreIndexed ==
    /\ \A i \in 1 .. Len(sim.orders) :
         /\ sim.orders[i].session_id \in DOMAIN sim.session_index
         /\ SessionOf(sim, sim.orders[i].session_id).session_id
                = sim.orders[i].session_id
         /\ SessionOf(sim, sim.orders[i].session_id).converted
    /\ \A i \in 1 .. Len(sim.events) :
         /\ sim.events[i].session_id \in DOMAIN sim.session_index
         /\ sim.events[i].user_id \in DOMAIN sim.user_index
         /\ SessionOf(sim, sim.events[i].session_id).session_id
                = sim.events[i].session_id
         /\ UserOf(sim, sim.events[i].user_id).user_id = sim.events[i].user_id

\* a result returned with two orders of two users
C1_ReturnedWithOrders ==
    /\ sim.pc = "returned"
    /\ Len(sim.orders) = 2
    /\ sim.orders[1].user_id # sim.orders[2].user_id

\* C2: the Session of every Order has converted = true and max_funnel_depth
\* equal to the index of the purchase step, 5, once the walk of that session
\* is over (line 408 writes the depth after the walk); so it is in the
\* result returned.
C2_OrderSessionReachedPurchase ==
    \A i \in 1 .. Len(sim.orders) :
        LET k == sim.session_index[sim.orders[i].session_id]
        IN  (sim.pc = "end_walk" /\ k = sim.session)
            \/ ( /\ sim.sessions[k].converted
                 /\ sim.sessions[k].max_funnel_depth = Len(FUNNEL_EVENTS) - 1
                 /\ sim.sessions[k].max_funnel_depth = 5 )

\* a result returned with an order, and a session with none next to it
C2_ReturnedWithOrderAndBounce ==
    /\ sim.pc = "returned"
    /\ Len(sim.orders) = 1
    /\ \E k \in 1 .. Len(sim.sessions) : sim.sessions[k].max_funnel_depth = 0

\* C3: with a non-empty product catalog, a session that has a purchase
\* event has exactly one Order with its session_id, a session that has none
\* has no Order and converted = false, and there are as many Orders as
\* purchase events.
C3_OrderExactlyAtPurchase ==
    product_catalog # <<>> =>
        LET purchases(sid) ==
                {i \in 1 .. Len(sim.events) :
                    /\ sim.events[i].session_id = sid
                    /\ sim.events[i].event_name = "purchase"}
            orders_of(sid) ==
                {j \in 1 .. Len(sim.orders) : sim.orders[j].session_id = sid}
            all_purchases ==
                {i \in 1 .. Len(sim.events) : sim.events[i].event_name = "purchase"}
        IN  /\ \A k \in 1 .. Len(sim.sessions) :
                 LET sid == sim.sessions[k].session_id
                 IN  IF purchases(sid) # {}
                     THEN /\ Cardinality(purchases(sid)) = 1
                          /\ Cardinality(orders_of(sid)) = 1
                          /\ sim.sessions[k].converted
                     ELSE /\ orders_of(sid) = {}
                          /\ ~sim.sessions[k].converted
            /\ Len(sim.orders) = Cardinality(all_purchases)

\* a result returned where one session purchased and one stopped a step
\* before the purchase
C3_PurchaseAndNearMiss ==
    /\ product_catalog # <<>>
    /\ sim.pc = "returned"
    /\ Len(sim.orders) = 1
    /\ \E k \in 1 .. Len(sim.sessions) :
         /\ sim.sessions[k].max_funnel_depth = 4
         /\ ~sim.sessions[k].converted

\* C4: two executions with the same seed, days, FunnelConfig, campaign_pool
\* and product_catalog return results with the same numbers of records and
\* the same field values in every record.
C4_SameArgumentsSameResult ==
    (sim.pc = "returned" /\ twin.pc = "returned") =>
        /\ sim.users = twin.users
        /\ sim.sessions = twin.sessions
        /\ sim.events = twin.events
        /\ sim.orders = twin.orders

\* C5: within every session there is exactly one session_start event, it is
\* the first and has event_index 0; in the order of creation the
\* event_index values are strictly increasing and the timestamps
\* non-decreasing, so timestamps are non-decreasing as event_index increases.
C5_EventsOrderedWithinSession ==
    \A k \in 1 .. Len(sim.sessions) :
        LET evs == SelectSeq(sim.events,
                       LAMBDA e : e.session_id = sim.sessions[k].session_id)
        IN  /\ Len(evs) >= 1
            /\ evs[1].event_name = "session_start"
            /\ evs[1].event_index = 0
            /\ \A i \in 2 .. Len(evs) :
                 /\ evs[i].event_name # "session_start"
                 /\ evs[i].event_index > evs[i - 1].event_index
                 /\ evs[i].timestamp >= evs[i - 1].timestamp
            /\ \A i, j \in 1 .. Len(evs) :
                 evs[i].event_index < evs[j].event_index
                    => evs[i].timestamp <= evs[j].timestamp

\* a session of six events, one of them the longest delay after the one
\* before it
C5_FullWalkWithLongDelay ==
    \E k \in 1 .. Len(sim.sessions) :
        LET evs == SelectSeq(sim.events,
                       LAMBDA e : e.session_id = sim.sessions[k].session_id)
        IN  /\ Len(evs) = Len(FUNNEL_EVENTS)
            /\ \E i \in 2 .. Len(evs) :
                 evs[i].timestamp
                    = evs[i - 1].timestamp + INTRA_SESSION_DELAY_SECONDS[2]

\* C6: for every user, the session_number values of the sessions of that
\* user are 1, 2, ..., n in the order of creation.
C6_SessionNumbersCountFromOne ==
    \A u \in 1 .. Len(sim.users) :
        LET own == SelectSeq(sim.sessions,
                       LAMBDA x : x.user_id = sim.users[u].user_id)
        IN  \A i \in 1 .. Len(own) : own[i].session_number = i

\* a user with two sessions, after a return
C6_ReturningUser ==
    /\ Len(sim.sessions) = 2
    /\ sim.sessions[1].user_id = sim.sessions[2].user_id
    /\ sim.sessions[2].session_number = 2

\* C7: with an empty product_catalog (and days >= 1) the simulation never
\* raises, and at no point is there an Order, a converted session or a user
\* with is_customer = true, whatever the number of purchase events.
C7_EmptyCatalogNoOrder ==
    (product_catalog = <<>> /\ days >= 1) =>
        /\ sim.pc # "ZeroDivisionError"
        /\ sim.orders = <<>>
        /\ \A k \in 1 .. Len(sim.sessions) : ~sim.sessions[k].converted
        /\ \A u \in 1 .. Len(sim.users) :
             ~sim.users[u].is_customer /\ sim.users[u].order_count = 0

\* with an empty catalog, a result returned where both sessions have a
\* purchase event
C7_EmptyCatalogPurchases ==
    /\ product_catalog = <<>>
    /\ sim.pc = "returned"
    /\ Cardinality({i \in 1 .. Len(sim.events) :
                        sim.events[i].event_name = "purchase"}) = 2

\* C8: with days <= 0 the run is rejected before the simulation starts: no
\* user is created and no session is walked.
C8_NonPositiveDaysRejected ==
    days <= 0 => (sim.users = <<>> /\ sim.sessions = <<>>)

\* C9: two calls of the same formatter on the same result return the same
\* rows.
C9_FormattedTwiceSameRows ==
    \A i, j \in 1 .. Len(outputs) : outputs[i] = outputs[j]

\* C10: the user, session and order identifiers in the rows a formatter
\* returns are identifiers of the users, sessions and orders of the result
\* (an order identifier may be in its str form).
C10_RowIdsAreInputIds ==
    LET user_ids == {sim.users[i].user_id : i \in 1 .. Len(sim.users)}
        session_ids == {sim.sessions[i].session_id : i \in 1 .. Len(sim.sessions)}
        order_ids == {sim.orders[i].order_id : i \in 1 .. Len(sim.orders)}
        rows(t) == {t[i] : i \in 1 .. Len(t)}
    IN  \A c \in 1 .. Len(outputs) :
          CASE formatter \in {"shopify", "woocommerce", "bigcommerce"} ->
                 \A r \in rows(outputs[c].orders) :
                    r.id \in order_ids /\ r.customer_id \in user_ids
            [] formatter = "google_analytics" ->
                 \A r \in rows(outputs[c].events) :
                    /\ r.user_id \in user_ids
                    /\ r.ga_session_id \in session_ids
                    /\ r.ecommerce_transaction_id
                          \in {<<"N/A">>} \cup {Str(id) : id \in order_ids}
            [] formatter = "amplitude" ->
                 /\ \A r \in rows(outputs[c].events) : r.user_id \in user_ids
                 /\ \A r \in rows(outputs[c].users) : r.user_id \in user_ids
            [] formatter = "mixpanel" ->
                 /\ \A r \in rows(outputs[c].events) :
                      r.prop_distinct_id \in user_ids
                 /\ \A r \in rows(outputs[c].people) : r.distinct_id \in user_ids
            [] OTHER -> TRUE

\* C11: each e-commerce formatter (shopify, woocommerce, bigcommerce) returns
\* one order row per Order of the result, in the same order, with the
\* total_price and the currency of the Order; a row has one line item per
\* line item of the Order, and where the line item of the row carries a
\* quantity and a price they are those of the Order's line item.
C11_OrderRowsProjectOrders ==
    formatter \in {"shopify", "woocommerce", "bigcommerce"} =>
        \A c \in 1 .. Len(outputs) :
            /\ Len(outputs[c].orders) = Len(sim.orders)
            /\ \A i \in 1 .. Len(sim.orders) :
                 LET o == sim.orders[i]
                     r == outputs[c].orders[i]
                 IN  /\ r.total_price = o.total_price
                     /\ r.currency = o.currency
                     /\ formatter \in {"shopify", "woocommerce"} =>
                            Len(r.line_items) = Len(o.line_items)
                     /\ formatter = "woocommerce" =>
                            \A k \in 1 .. Len(o.line_items) :
                                /\ r.line_items[k].quantity = o.line_items[k].quantity
                                /\ r.line_items[k].price = o.line_items[k].price

\* woocommerce rows of a result with an order of quantity 3
C11_WoocommerceRowsOfLargeOrder ==
    /\ formatter = "woocommerce"
    /\ Len(outputs) >= 1
    /\ \E i \in 1 .. Len(sim.orders) :
         \E k \in 1 .. Len(sim.orders[i].line_items) :
            /\ sim.orders[i].line_items[k].quantity = 3
            /\ outputs[1].orders[i].line_items[k].quantity = 3

\* C12: all rows of a table returned by a formatter have the same key set,
\* and in the event rows of GA4, Amplitude and Mixpanel every event finds its
\* session and its user in the indexes of the result and no looked-up value
\* is None.
C12_RowsDenseAndUniform ==
    \A c \in 1 .. Len(outputs) :
        /\ \A t \in DOMAIN outputs[c] :
             \A i, j \in 1 .. Len(outputs[c][t]) :
                DOMAIN outputs[c][t][i] = DOMAIN outputs[c][t][j]
        /\ formatter \in {"google_analytics", "amplitude", "mixpanel"} =>
             /\ Len(outputs[c].events) = Len(sim.events)
             /\ \A i \in 1 .. Len(sim.events) :
                  /\ sim.events[i].session_id \in DOMAIN sim.session_index
                  /\ sim.events[i].user_id \in DOMAIN sim.user_index
        /\ formatter = "google_analytics" =>
             \A i \in 1 .. Len(outputs[c].events) :
                LET r == outputs[c].events[i]
                IN  None \notin {r.event_name, r.geo_country, r.geo_city,
                                 r.traffic_source_source, r.traffic_source_medium,
                                 r.traffic_source_campaign, r.device_category,
                                 r.ecommerce_currency}
        /\ formatter = "amplitude" =>
             \A i \in 1 .. Len(outputs[c].events) :
                LET r == outputs[c].events[i]
                IN  None \notin {r.event_type, r.device_type, r.country}
        /\ formatter = "mixpanel" =>
             \A i \in 1 .. Len(outputs[c].events) :
                LET r == outputs[c].events[i]
                IN  None \notin {r.event, r.prop_browser, r.prop_city,
                                 r.prop_country_code, r.prop_device_type,
                                 r.prop_utm_source, r.prop_utm_medium,
                                 r.prop_utm_campaign}

\* Mixpanel rows of a result with two events of which one is of an organic
\* session
C12_MixpanelRowsOfOrganicSession ==
    /\ formatter = "mixpanel"
    /\ Len(outputs) >= 1
    /\ Len(outputs[1].events) >= 2
    /\ \E i \in 1 .. Len(outputs[1].events) :
         outputs[1].events[i].prop_utm_campaign = "(not set)"

\* C14: for every campaign pool, the empty one included, the weights
\* _build_traffic_sources returns sum to 1.0; the weight of a paid platform is
\* 0.58 times its share of the total campaign count; the organic channels
\* share the remainder in the proportions 0.40, 0.30, 0.15, 0.15, which is
\* all of 1.0 when no paid platform has a weight. Weights are counted in
\* units of 1 / (10000 * T), T the total campaign count or 1.
C14_WeightsSumToOne ==
    Len(returned) >= 1 =>
        LET sources == returned[1]
            T == Max(SumSeq([i \in 1 .. Len(campaign_pool) |->
                                Len(campaign_pool[i].campaigns)]), 1)
            one == 10000 * T
            weight_of(paid) ==
                SumSeq([i \in 1 .. Len(sources) |->
                    IF sources[i].is_paid = paid THEN sources[i].weight ELSE 0])
            n_paid == Len(sources) - Len(_ORGANIC_TRAFFIC)
        IN  /\ SumSeq([i \in 1 .. Len(sources) |-> sources[i].weight]) = one
            /\ \A i \in 1 .. Len(sources) :
                 /\ sources[i].weight >= 0
                 /\ sources[i].is_paid <=> i <= n_paid
                 /\ sources[i].is_paid =>
                      sources[i].weight
                        = PaidWeightTotal * 100 * Len(sources[i].campaigns)
            /\ \A i \in 1 .. Len(_ORGANIC_TRAFFIC) :
                 sources[n_paid + i].weight * 100
                    = _ORGANIC_TRAFFIC[i].weight * (one - weight_of(TRUE))
            /\ weight_of(TRUE) = 0 => weight_of(FALSE) = one

\* the sources returned for the empty pool: the four organic ones
C14_SourcesOfEmptyPool ==
    campaign_pool = <<>> /\ Len(returned) >= 1 /\ Len(returned[1]) = 4

\* C15: a Session with is_paid = true has the utm_campaign of one of the
\* campaigns campaign_pool holds for the platform of the session's source,
\* and a Session with is_paid = false has utm_campaign "(not set)"; with an
\* empty campaign_pool every Session is organic and the run does not raise.
C15_CampaignOfOwnPlatform ==
    /\ \A k \in 1 .. Len(sim.sessions) :
         LET s == sim.sessions[k]
         IN  IF s.is_paid
             THEN \E i \in 1 .. Len(campaign_pool) :
                    /\ campaign_pool[i].platform \in DOMAIN _PLATFORM_TRAFFIC
                    /\ _PLATFORM_TRAFFIC[campaign_pool[i].platform].source = s.utm_source
                    /\ s.utm_medium = "cpc"
                    /\ \E c \in 1 .. Len(campaign_pool[i].campaigns) :
                         s.utm_campaign = campaign_pool[i].campaigns[c]
             ELSE s.utm_campaign = "(not set)"
    /\ campaign_pool = <<>> =>
         /\ \A k \in 1 .. Len(sim.sessions) : ~sim.sessions[k].is_paid
         /\ days >= 1 => sim.pc # "ZeroDivisionError"

\* a paid session of the second platform of the pool
C15_PaidSessionOfSecondPlatform ==
    \E k \in 1 .. Len(sim.sessions) :
        /\ sim.sessions[k].is_paid
        /\ sim.sessions[k].utm_source = "facebook"
        /\ sim.sessions[k].utm_campaign = "lookalike"

\* C16: when the summary has been printed, its 'Reached' count of step i is
\* the number of sessions with max_funnel_depth >= i, which is the number of
\* Events with event_index = i, and these counts do not increase with i.
C16_ReachedCountsSessionsAndEvents ==
    sim.pc = "returned" =>
        LET deep(i) == Cardinality({k \in 1 .. Len(sim.sessions) :
                            sim.sessions[k].max_funnel_depth >= i})
            events_at(i) == Cardinality({e \in 1 .. Len(sim.events) :
                            sim.events[e].event_index = i})
        IN  /\ Len(sim.reached) = Len(FUNNEL_EVENTS)
            /\ \A i \in 0 .. (Len(FUNNEL_EVENTS) - 1) :
                 /\ sim.reached[i + 1] = deep(i)
                 /\ deep(i) = events_at(i)
                 /\ i > 0 => deep(i) <= deep(i - 1)

\* a summary of two sessions of which one dropped at step 0 and one reached
\* the last step
C16_SummaryOfBounceAndPurchase ==
    /\ sim.pc = "returned"
    /\ sim.reached[1] = 2
    /\ sim.reached[2] = 1
    /\ sim.reached[Len(FUNNEL_EVENTS)] = 1

\* C17: an entry missing from a probability table does not raise: for a
\* transition step[i-1] -> step[i] whose key advance_rates lacks, the
\* probability is 0, for a customer too, and no session has an event of index
\* i or more; for a depth return_rates lacks, the return probability is 0.06.
C17_MissingEntriesDefault ==
    /\ \A i \in 1 .. (Len(FUNNEL_EVENTS) - 1) :
         rate_key(i) \notin DOMAIN funnel_config.advance_rates =>
            /\ \A c \in BOOLEAN : base_prob(i, [is_customer |-> c]) = 0
            /\ \A e \in 1 .. Len(sim.events) : sim.events[e].event_index < i
            /\ \A k \in 1 .. Len(sim.sessions) : sim.sessions[k].max_funnel_depth < i
    /\ \A d \in 0 .. (Len(FUNNEL_EVENTS) - 1) :
         d \notin DOMAIN funnel_config.return_rates =>
            return_prob(d) = DefaultReturnRate
    /\ days >= 1 => sim.pc # "ZeroDivisionError"

\* with the table that has gaps: a user came back after a session that
\* stopped at the step before the missing transition, the depth without a
\* return rate, and the second session stopped there too
C17_ReturnAfterGapDepth ==
    /\ funnel_config = FunnelConfigWithGaps
    /\ Len(sim.sessions) = 2
    /\ sim.sessions[1].user_id = sim.sessions[2].user_id
    /\ sim.sessions[1].max_funnel_depth = 1
    /\ sim.sessions[2].max_funnel_depth = 1

\* C18: in the SQL build_query returns there is one WHERE part, after the
\* SELECT, FROM and JOIN parts only; its first clause is the predicate
\* tenant_slug = ? (on the column of the base table, written base.tenant_slug
\* when the request has joins) and params[0] is the tenant slug of the
\* caller; the clauses of the filters follow it, one per filter, joined by
\* AND, and their parameters follow the tenant slug.
C18_TenantPredicateFirst ==
    (Len(returned) = 1 /\ ~returned[1].raised) =>
        LET r == returned[1]
            at == {i \in 1 .. Len(r.sql) : r.sql[i].keyword = "WHERE"}
        IN  /\ Cardinality(at) = 1
            /\ \A i \in at :
                 /\ \A j \in 1 .. (i - 1) :
                      \/ r.sql[j].keyword \in {"SELECT", "FROM"}
                      \/ \E k \in 1 .. Len(request.joins) :
                            r.sql[j].keyword = "LEFT JOIN " \o request.joins[k] \o " ON"
                 /\ r.sql[i].items[1]
                        = (IF request.joins # <<>> THEN "base." ELSE "") \o "tenant_slug = ?"
                 /\ r.sql[i].sep = " AND "
                 /\ Len(r.sql[i].items) = 1 + Len(request.filters)
                 /\ \A k \in 1 .. Len(request.filters) :
                      r.sql[i].items[1 + k]
                        = filter_clause(request.filters[k],
                                        IF request.joins # <<>> THEN "base." ELSE "")
            /\ r.params[1] = request.tenant_slug
            /\ Len(r.params)
                 = 1 + SumSeq([k \in 1 .. Len(request.filters) |->
                                Len(filter_params(request.filters[k]))])

\* SQL returned for a request of tyrell_corp with a join and a filter that
\* names the slug of another tenant
C18_FilterOnOtherTenant ==
    /\ Len(returned) = 1
    /\ ~returned[1].raised
    /\ request.tenant_slug = "tyrell_corp"
    /\ request.joins # <<>>
    /\ Len(request.filters) = 1
    /\ request.filters[1].field = "tenant_slug"
    /\ returned[1].params = <<"tyrell_corp", "wayne_ent">>

\* what the config declares for the model a request names
Declared(req) ==
    LET found == SelectSeq(SemanticConfig.models, LAMBDA m : m.name = req.model)
    IN  IF found = <<>>
        THEN [model |-> FALSE, dimensions |-> {}, measures |-> {},
              calculated_measures |-> {}, joins |-> {}]
        ELSE [model |-> TRUE,
              dimensions |-> Names(found[1].dimensions),
              measures |-> Names(found[1].measures),
              calculated_measures |-> Names(found[1].calculated_measures),
              joins |-> Targets(found[1].joins)]

\* every name of the request, but the filter fields, is declared
AllButFiltersDeclared(req) ==
    LET d == Declared(req)
        fields == d.dimensions \union d.measures \union d.calculated_measures
    IN  /\ d.model
        /\ \A i \in 1 .. Len(req.dimensions) : req.dimensions[i] \in d.dimensions
        /\ \A i \in 1 .. Len(req.measures) : req.measures[i] \in d.measures
        /\ \A i \in 1 .. Len(req.calculated_measures) :
             req.calculated_measures[i] \in d.calculated_measures
        /\ \A i \in 1 .. Len(req.joins) : req.joins[i] \in d.joins
        /\ \A i \in 1 .. Len(req.order_by) : req.order_by[i].field \in fields

\* C19 as stated: build_query returns SQL only when every name of the
\* request, the filter fields included, is declared for the model.
C19_SqlOnlyIfAllDeclared ==
    (Len(returned) = 1 /\ ~returned[1].raised) =>
        LET d == Declared(request)
        IN  /\ AllButFiltersDeclared(request)
            /\ \A i \in 1 .. Len(request.filters) :
                 request.filters[i].field
                    \in d.dimensions \union d.measures \union d.calculated_measures

\* C19, amended: build_query raises ValueError and returns no SQL whenever the
\* request names a model, dimension, measure, calculated measure, join target
\* or order_by field that the config does not declare for the model, or a
\* filter field other than tenant_slug that it does not declare; it returns
\* SQL only when every name but a filter field tenant_slug is declared; and a
\* filter on tenant_slug does not make it raise.
C19_SqlOnlyIfDeclaredOrTenantSlug ==
    Len(returned) = 1 =>
        LET d == Declared(request)
            r == returned[1]
            undeclared_filter ==
                \E i \in 1 .. Len(request.filters) :
                    request.filters[i].field
                        \notin d.dimensions \union d.measures
                               \union d.calculated_measures \union {"tenant_slug"}
            plain_filters ==
                \A i \in 1 .. Len(request.filters) :
                    request.filters[i].field
                        \in d.dimensions \union d.measures \union {"tenant_slug"}
        IN  /\ (~AllButFiltersDeclared(request) \/ undeclared_filter) =>
                 (r.raised /\ r.sql = <<>> /\ r.params = <<>>)
            /\ ~r.raised => (AllButFiltersDeclared(request) /\ ~undeclared_filter)
            /\ (AllButFiltersDeclared(request) /\ plain_filters) => ~r.raised

\* a request refused for a dimension that is declared for another model only
C19_DimensionOfAnotherModelRefused ==
    /\ Len(returned) = 1
    /\ returned[1].raised
    /\ returned[1].error = "Unknown dimension"
    /\ request.model = "fct_ad_performance"
    /\ request.dimensions = <<"order_date">>

\* C20: the steps of a session are tried in order and the walk stops at the
\* first draw that fails: the events of a session have, in the order of their
\* creation, the event_index 0, 1, ..., depth, one event per index, where
\* depth is max_funnel_depth (for the session being walked, the depth reached
\* so far); and the step tried next is the one after the last step reached.
C20_WalkIsASequentialGate ==
    \A k \in 1 .. Len(sim.sessions) :
        LET evs == SelectSeq(sim.events,
                       LAMBDA e : e.session_id = sim.sessions[k].session_id)
            walking == k = sim.session /\ sim.pc \in {"for_step", "end_walk"}
            depth == IF walking THEN sim.max_depth
                     ELSE sim.sessions[k].max_funnel_depth
        IN  /\ Len(evs) = depth + 1
            /\ \A i \in 1 .. Len(evs) :
                 /\ evs[i].event_index = i - 1
                 /\ evs[i].event_name = FUNNEL_EVENTS[i]
            /\ (walking /\ sim.pc = "for_step") => sim.step_idx = depth + 1

\* a session whose walk stopped at a failed draw after two steps, followed by
\* another session
C20_StoppedAfterTwoSteps ==
    /\ Len(sim.sessions) = 2
    /\ sim.sessions[1].max_funnel_depth = 2
    /\ Cardinality({e \in 1 .. Len(sim.events) :
            sim.events[e].session_id = sim.sessions[1].session_id}) = 3

\* C21: a user gets a further session if and only if the return draw made
\* after the previous session was below the return probability of that
\* session's max_funnel_depth and the time scheduled for the next session is
\* before the end of the window: a step that starts a further session is
\* taken with such a draw and such a time, and the step that ends the user's
\* journey is taken without them. Every Session's timestamp is in
\* [window start, window end).
C21_ReturnDrawAndWindowDecide ==
    [][ LET last_depth == sim.sessions[sim.session].max_funnel_depth
            returns == /\ sim.return_draw # NoDraw
                       /\ sim.return_draw[1] < return_prob(last_depth)
                       /\ sim.current_time < end_dt(sim)
        IN  /\ (sim.session_count >= 1 /\ Len(sim'.sessions) = Len(sim.sessions) + 1) =>
                 /\ returns
                 /\ sim'.sessions[Len(sim'.sessions)].user_id = sim.users[sim.user].user_id
                 /\ sim'.sessions[Len(sim'.sessions)].timestamp = sim.current_time
            /\ (sim.session_count >= 1 /\ sim.pc = "while_session"
                    /\ sim'.pc = "for_user") => ~returns
            /\ \A k \in 1 .. Len(sim'.sessions) :
                 /\ start_dt(sim') <= sim'.sessions[k].timestamp
                 /\ sim'.sessions[k].timestamp < end_dt(sim')
      ]_vars

\* a user whose return draw was below the return probability and whose next
\* session was scheduled after the end of the window
C21_ReturnedPastTheWindow ==
    /\ sim.pc = "for_user"
    /\ Len(sim.sessions) = 1
    /\ sim.session_count = 1
    /\ sim.has_more_sessions
    /\ sim.current_time >= end_dt(sim)

C23_UserCountsOwnOrders ==
    \A k \in 1 .. Len(sim.users) :
        LET u == sim.users[k]
            own == {o \in 1 .. Len(sim.orders) : sim.orders[o].user_id = u.user_id}
        IN  /\ u.order_count = Cardinality(own)
            /\ u.is_customer <=> u.order_count >= 1
            /\ u.email # NoEmail <=> u.order_count >= 1

\* a user whose two sessions have both ended in an order
C23_RepeatCustomer ==
    /\ Len(sim.orders) = 2
    /\ sim.users[sim.user].order_count = 2
    /\ sim.orders[1].user_id = sim.orders[2].user_id
    /\ sim.orders[1].session_id # sim.orders[2].session_id

\* C24: in every state two consecutive events of one session are between 60
\* and 1800 seconds apart, a user's next session starts between 1860 and
\* 604800 seconds after the last event of the session before it, and of two
\* sessions of one user the one with the smaller session_number has the
\* smaller timestamp and ends before the other starts.
C24_DelaysWithinAndBetweenSessions ==
    LET events_of(j) ==
            {e \in 1 .. Len(sim.events) :
                sim.events[e].session_id = sim.sessions[j].session_id}
        last_event(j) ==
            CHOOSE e \in events_of(j) :
                \A f \in events_of(j) :
                    sim.events[f].timestamp <= sim.events[e].timestamp
    IN  /\ \A e \in 1 .. Len(sim.events) - 1 :
             sim.events[e].session_id = sim.events[e + 1].session_id =>
                sim.events[e + 1].timestamp - sim.events[e].timestamp
                    \in 60 .. 1800
        /\ \A j, k \in 1 .. Len(sim.sessions) :
             (/\ sim.sessions[j].user_id = sim.sessions[k].user_id
              /\ sim.sessions[j].session_number < sim.sessions[k].session_number) =>
                /\ sim.sessions[j].timestamp < sim.sessions[k].timestamp
                /\ sim.events[last_event(j)].timestamp < sim.sessions[k].timestamp
                /\ sim.sessions[k].session_number = sim.sessions[j].session_number + 1 =>
                     sim.sessions[k].timestamp - sim.events[last_event(j)].timestamp
                        \in 1860 .. 604800

\* a user's second session after a first one of at least two events
C24_SecondSessionAfterLongFirst ==
    /\ Len(sim.sessions) = 2
    /\ sim.sessions[1].user_id = sim.sessions[2].user_id
    /\ sim.sessions[1].max_funnel_depth >= 1
    /\ sim.events[2].timestamp = sim.sessions[1].timestamp + 1800
    /\ sim.sessions[2].timestamp = sim.events[2].timestamp + 1860

\* C25: every step leaves each event and each order that exists as it is,
\* leaves every session but the one being walked as it is and changes of the
\* walked one only converted and max_funnel_depth, leaves every user but the
\* walking one as it is and changes of that one only is_customer, order_count
\* and email; a formatter call leaves the whole execution as it is.
C25_RecordsFrozenAfterTheirStep ==
    [][ LET walking == sim.pc \in {"for_step", "end_walk"}
        IN  /\ Len(sim'.events) >= Len(sim.events)
            /\ \A e \in 1 .. Len(sim.events) : sim'.events[e] = sim.events[e]
            /\ Len(sim'.orders) >= Len(sim.orders)
            /\ \A o \in 1 .. Len(sim.orders) : sim'.orders[o] = sim.orders[o]
            /\ Len(sim'.sessions) >= Len(sim.sessions)
            /\ \A k \in 1 .. Len(sim.sessions) :
                 IF walking /\ k = sim.session
                 THEN [sim'.sessions[k] EXCEPT
                          !.converted = sim.sessions[k].converted,
                          !.max_funnel_depth = sim.sessions[k].max_funnel_depth]
                      = sim.sessions[k]
                 ELSE sim'.sessions[k] = sim.sessions[k]
            /\ Len(sim'.users) >= Len(sim.users)
            /\ \A k \in 1 .. Len(sim.users) :
                 IF walking /\ k = sim.user
                 THEN [sim'.users[k] EXCEPT
                          !.is_customer = sim.users[k].is_customer,
                          !.order_count = sim.users[k].order_count,
                          !.email = sim.users[k].email]
                      = sim.users[k]
                 ELSE sim'.users[k] = sim.users[k]
            /\ outputs' # outputs => sim' = sim
      ]_vars

\* a returned result of two sessions of different depth, one with an order,
\* after two formatter calls
C25_FormattedTwice ==
    /\ Len(outputs) = 2
    /\ Len(sim.sessions) = 2
    /\ sim.sessions[1].max_funnel_depth # sim.sessions[2].max_funnel_depth
    /\ sim.orders # <<>>

\* C26: every output of _format_ga4 has one row per event of the result, in
\* the order of the events; with a non-empty catalog the session of a
\* purchase event has exactly one order and the row of the event carries
\* that order's order_id, as a decimal string, and its total_price; the row
\* of every other event carries "N/A" and 0.
C26_Ga4RowsCarryTheSessionsOrder ==
    formatter = "google_analytics" =>
        \A n \in 1 .. Len(outputs) :
            LET rows == outputs[n].events
            IN  /\ Len(rows) = Len(sim.events)
                /\ \A i \in 1 .. Len(rows) :
                     LET evt == sim.events[i]
                         own == {j \in 1 .. Len(sim.orders) :
                                    sim.orders[j].session_id = evt.session_id}
                     IN  /\ rows[i].event_name = evt.event_name
                         /\ (evt.event_name = "purchase" /\ product_catalog # <<>>) =>
                              /\ Cardinality(own) = 1
                              /\ \A j \in own :
                                   /\ rows[i].ecommerce_transaction_id
                                        = Str(sim.orders[j].order_id)
                                   /\ rows[i].ecommerce_value = sim.orders[j].total_price
                         /\ evt.event_name # "purchase" =>
                              /\ rows[i].ecommerce_transaction_id = <<"N/A">>
                              /\ rows[i].ecommerce_value = 0

\* the GA4 rows of a result with a purchase of a positive total and a
\* session that stopped before the purchase
C26_Ga4RowsOfPurchaseAndDropOff ==
    /\ formatter = "google_analytics"
    /\ outputs # <<>>
    /\ Len(sim.orders) = 1
    /\ sim.orders[1].total_price > 0
    /\ \E i \in 1 .. Len(sim.events) : sim.events[i].event_name = "purchase"
    /\ \E k \in 1 .. Len(sim.sessions) : ~sim.sessions[k].converted

\* C27: whatever the return rates, 1.0 at every depth included, a user never
\* has more than ceil(days * 86400 / 1860) sessions, a session starts at
\* least 1860 seconds after the one before it began, and the loops end: the
\* simulation comes to its return.
C27_JourneysEnd ==
    /\ [](returned.session_count * 1860 <= days * SecondsPerDay + 1859)
    /\ [][(returned.pc = "while_session" /\ returned'.pc = "for_step"
                /\ returned.session_count >= 1) =>
            returned'.event_time >= returned.event_time + 1860]_vars
    /\ <>(returned.pc = "returned")

\* a user who always returns, in the last session the window has room for
C27_FortySevenSessions ==
    /\ funnel_config = FunnelConfigAlwaysReturns
    /\ returned.session_count = 47
    /\ returned.pc = "for_step"

\* C28: in every state no two orders of the result have the same order_id,
\* and in every output of an e-commerce formatter no two order rows have the
\* same id.
C28_OrderIdsIdentifyOrders ==
    /\ \A i, j \in 1 .. Len(sim.orders) :
         i # j => sim.orders[i].order_id # sim.orders[j].order_id
    /\ formatter \in {"shopify", "woocommerce", "bigcommerce"} =>
         \A n \in 1 .. Len(outputs) :
            \A i, j \in 1 .. Len(outputs[n].orders) :
                i # j => outputs[n].orders[i].id # outputs[n].orders[j].id

\* C29, as stated: in every state the timestamp of every event and of every
\* order lies inside the window, from start_dt on and before end_dt.
C29_EventsInsideTheWindow ==
    /\ \A e \in 1 .. Len(sim.events) :
         start_dt(sim) <= sim.events[e].timestamp /\ sim.events[e].timestamp < end_dt(sim)
    /\ \A o \in 1 .. Len(sim.orders) :
         start_dt(sim) <= sim.orders[o].timestamp /\ sim.orders[o].timestamp < end_dt(sim)

\* C29, amended: in every state the timestamp of every session, which is
\* that of its session_start event, lies inside the window; the event of
\* index i of a session lies between 60 * i and 1800 * i seconds after the
\* start of the session, so before end_dt + 9000 seconds but not always
\* before end_dt; an order has the timestamp of the purchase event of its
\* session.
C29_SessionsStartInsideTheWindow ==
    /\ \A k \in 1 .. Len(sim.sessions) :
         /\ start_dt(sim) <= sim.sessions[k].timestamp
         /\ sim.sessions[k].timestamp < end_dt(sim)
    /\ \A e \in 1 .. Len(sim.events) :
         LET evt == sim.events[e]
             session == sim.sessions[sim.session_index[evt.session_id]]
         IN  /\ session.timestamp + 60 * evt.event_index <= evt.timestamp
             /\ evt.timestamp <= session.timestamp + 1800 * evt.event_index
             /\ evt.timestamp < end_dt(sim) + 1800 * (Len(FUNNEL_EVENTS) - 1)
    /\ \A o \in 1 .. Len(sim.orders) :
         \E e \in 1 .. Len(sim.events) :
            /\ sim.events[e].session_id = sim.orders[o].session_id
            /\ sim.events[e].event_name = "purchase"
            /\ sim.events[e].timestamp = sim.orders[o].timestamp

\* a session that starts in the last second of the window and ends in an
\* order after the end of the window
C29_OrderAfterTheWindow ==
    \E o \in 1 .. Len(sim.orders) :
        /\ sim.orders[o].timestamp >= end_dt(sim)
        /\ sim.sessions[sim.session_index[sim.orders[o].session_id]].timestamp
              = end_dt(sim) - 1

====
